---- MODULE Spec2Model ----
(***************************************************************************)
(* A model of the Mailspring-Sync engine: the MailProcessor reconciliation *)
(* routines, the background sync cycle (SyncWorker::syncNow), the          *)
(* foreground idle loop (SyncWorker::idleCycle), the listener on the main  *)
(* thread and the task state machine.                                     *)
(*                                                                         *)
(* The local database is the record `store`; every MailProcessor and       *)
(* SyncWorker routine is an operator from a store (and its inputs) to the  *)
(* store it leaves behind, so an action composes them exactly as the code  *)
(* calls them.  Where a routine goes on from what an earlier statement     *)
(* left, the rest of the routine is an operator of its own that takes that *)
(* result as a parameter.  Contact and full-text-search indexing write     *)
(* tables that no other routine reads and are left out.                    *)
(***************************************************************************)
EXTENDS Integers, Sequences, FiniteSets, TLC

VARIABLES
    store,    \* the account's SQL database, plus the MailStore transaction state
    remote,   \* the IMAP server's mailbox
    caps,     \* the capabilities the server advertises
    headers,  \* the immutable headers of each message
    now,      \* wall clock, in seconds
    bg,       \* the background worker and its thread (runBackgroundSyncWorker)
    fg,       \* the foreground worker and its thread (runForegroundSyncWorker)
    main,     \* the listener on the main thread (runListenOnMainThread)
    hist      \* history of what the workers did, read only by the properties

vars == <<store, remote, caps, headers, now, bg, fg, main, hist>>

----------------------------------------------------------------------------
\* Bounds of the model.

\* message identities of the sync specifications
NumMsgs == 2
\* remote mailbox changes per behaviour
MaxEnvOps == 2
\* syncNow passes per behaviour
MaxCycles == 3
\* syncNow passes per behaviour in the specifications with a foreground worker
WorkerCycles == 2
\* clock ticks per behaviour
MaxTicks == 1
\* seconds per clock tick
TickSeconds == 601
\* sync timestamps of the calls made to the MailProcessor directly
MaxTs == 3
\* messages of one conversation
ThreadMsgs == 3
\* tasks the UI queues per behaviour
MaxTasks == 2
\* need-bodies requests the UI sends per behaviour
MaxRequests == 1
\* folders of the account in the folder-order specification
OrderFolders == 3
\* seconds of the listener's life that are followed
MaxElapsed == 45

----------------------------------------------------------------------------
\* Program constants.

\* The ceiling of the UID space.  The checker's integers are 32-bit signed, so
\* the ceiling is represented by the largest of them; the code only compares
\* UIDs with UINT32_MAX - k for k <= 5.
UINT32_MAX == 2147483647
TEN_MINUTES == 600
\* deleteMessagesStillUnlinkedFromPhase: int chunkSize = 100
chunkSize == 100
\* insertMessage: min(50, references->count())
LookupRefLimit == 50
\* upsertThreadReferences: min(100, references->count())
UpsertRefLimit == 100
\* syncFolderFullScanIncremental: fullScanChunkSize
FullScanChunkSize == 1000
FreshScanChunkSize == 200
\* syncFolderChangesViaShallowScan: fetchMessageUIDAtDepth(folder, 499, uidnext)
ShallowDepth == 499
\* syncMessageBodies: LIMIT 10 and one month
BodyLimit == 10
OneMonth == 2592000

\* insertFallbackToUpdateMessage: ex.getErrorCode() != 19; SQLite's codes
\* of a constraint failure and, for the other errors, of a busy database
SQLITE_CONSTRAINT == 19
SQLITE_BUSY == 5
\* runBackgroundSyncWorker: sleep(120)
SleepSeconds == 120
\* runListenOnMainThread: time(0) - lostCINAt > 30
OrphanSeconds == 30

roleOrder == <<"inbox", "sent", "drafts", "all", "archive", "trash", "spam">>

----------------------------------------------------------------------------
\* Helpers on json objects and std::map (functions with a growing domain).

EmptyMap == [k \in {} |-> 0]

Put(f, k, v) == [x \in DOMAIN f \cup {k} |-> IF x = k THEN v ELSE f[x]]

Drop(f, ks) == [x \in DOMAIN f \ ks |-> f[x]]

Min(a, b) == IF a < b THEN a ELSE b

SeqRange(s) == {s[i] : i \in 1..Len(s)}

\* the elements of a set of numbers in ascending order: the k-th has k - 1
\* elements below it
Ascending(s) == [k \in 1..Cardinality(s) |-> CHOOSE x \in s : Cardinality({y \in s : y < x}) = k - 1]

----------------------------------------------------------------------------
\* MailStore: transactions and the delta stream.  A delta is handed to the
\* observer (the UI channel) when the outermost transaction commits; a
\* rollback restores the tables and drops the deltas.  store.log records, for
\* the handler that ran last, each transaction's begin / commit / rollback
\* and each delta that reached the observer.

Tables(S) == [msgs |-> S.msgs, threads |-> S.threads, refs |-> S.refs, bodies |-> S.bodies, folders |-> S.folders, labels |-> S.labels, tasks |-> S.tasks, counts |-> S.counts]

\* (counts: the categoryIds that have a row in ThreadCounts)
EmptyStore == [msgs |-> EmptyMap, threads |-> EmptyMap, refs |-> {}, bodies |-> {}, folders |-> EmptyMap, labels |-> EmptyMap, tasks |-> EmptyMap, counts |-> {}, txDepth |-> 0, txPending |-> <<>>, txSnap |-> <<>>, tx |-> 0, log |-> <<>>, seen |-> {}]

\* store.seen records which message the processor was handed in which folder
\* (the lines it logs).
\* the store as a handler finds it: no transaction open, an empty log
AtRest(S) == [S EXCEPT !.txDepth = 0, !.txPending = <<>>, !.txSnap = <<>>, !.tx = 0, !.log = <<>>, !.seen = {}]

beginTransaction(S) ==
    IF S.txDepth > 0
    THEN [S EXCEPT !.txDepth = @ + 1]
    ELSE [S EXCEPT !.txDepth = 1, !.txSnap = Tables(S), !.tx = @ + 1,
                   !.log = Append(@, [ev |-> "begin", tx |-> S.tx + 1, kind |-> "", op |-> ""])]

Emits(pending, tx) == [i \in 1..Len(pending) |-> [ev |-> "emit", tx |-> tx, kind |-> pending[i].kind, op |-> pending[i].op]]

commitTransaction(S) ==
    IF S.txDepth > 1
    THEN [S EXCEPT !.txDepth = @ - 1]
    ELSE [S EXCEPT !.txDepth = 0, !.txSnap = <<>>, !.txPending = <<>>,
                   !.log = Append(@, [ev |-> "commit", tx |-> S.tx, kind |-> "", op |-> ""]) \o Emits(S.txPending, S.tx)]

rollbackTransaction(S) ==
    [S EXCEPT !.msgs = S.txSnap.msgs, !.threads = S.txSnap.threads, !.refs = S.txSnap.refs,
              !.bodies = S.txSnap.bodies, !.folders = S.txSnap.folders, !.labels = S.txSnap.labels,
              !.tasks = S.txSnap.tasks, !.counts = S.txSnap.counts,
              !.txDepth = 0, !.txSnap = <<>>, !.txPending = <<>>,
              !.log = Append(@, [ev |-> "rollback", tx |-> S.tx, kind |-> "", op |-> ""])]

\* a store that hands each delta to the observer at once
emitDeltaAtOnce(S, kind, op) ==
    IF S.txDepth > 0
    THEN [S EXCEPT !.log = Append(@, [ev |-> "emit", tx |-> S.tx, kind |-> kind, op |-> op])]
    ELSE [S EXCEPT !.tx = @ + 1,
                   !.log = @ \o << [ev |-> "begin", tx |-> S.tx + 1, kind |-> "", op |-> ""],
                                   [ev |-> "commit", tx |-> S.tx + 1, kind |-> "", op |-> ""],
                                   [ev |-> "emit", tx |-> S.tx + 1, kind |-> kind, op |-> op] >>]

\* Queue a delta, or, outside a transaction, commit the single write and emit.
emitDelta(S, kind, op) ==
    IF S.txDepth > 0
    THEN [S EXCEPT !.txPending = Append(@, [kind |-> kind, op |-> op])]
    ELSE [S EXCEPT !.tx = @ + 1,
                   !.log = @ \o << [ev |-> "begin", tx |-> S.tx + 1, kind |-> "", op |-> ""],
                                   [ev |-> "commit", tx |-> S.tx + 1, kind |-> "", op |-> ""],
                                   [ev |-> "emit", tx |-> S.tx + 1, kind |-> kind, op |-> op] >>]

\* save(entity, emit): insert-or-update of one row
save(S, table, kind, id, row, emit) ==
    LET S1 == [S EXCEPT ![table] = Put(@, id, row)]
    IN IF emit THEN emitDelta(S1, kind, "persist") ELSE S1

\* remove(entity): delete of one row
remove(S, table, kind, id) ==
    emitDelta([S EXCEPT ![table] = Drop(@, {id})], kind, "unpersist")

\* Removing a message takes its thread along when it was the thread's last.
removeMessage(S, id) ==
    LET tid == S.msgs[id].threadId
        last == tid \in DOMAIN S.threads /\ \A i \in DOMAIN S.msgs \ {id} : S.msgs[i].threadId # tid
    IN IF last THEN remove(remove(S, "msgs", "Message", id), "threads", "Thread", tid)
       ELSE remove(S, "msgs", "Message", id)

\* the messages of ids removed in their order: the first half of them, then
\* the rest; nothing is removed from an empty table
RECURSIVE removeMessages(_, _)
removeMessages(S, ids) ==
    IF ids = <<>> \/ DOMAIN S.msgs = {} THEN S
    ELSE IF Len(ids) = 1 THEN removeMessage(S, ids[1])
    ELSE removeMessages(removeMessages(S, SubSeq(ids, 1, Len(ids) \div 2)), SubSeq(ids, Len(ids) \div 2 + 1, Len(ids)))

----------------------------------------------------------------------------
\* MailUtils and the Message model (their sources are not part of the tree).

\* idForMessage: a digest of the account and the message's immutable headers,
\* the same in whichever folder the message is seen.  The model's messages
\* carry their identity in field m.
idForMessage(mMsg) == mMsg.m

\* idForFolder: a digest of the folder's path
idForFolder(path) == <<"folder", path>>

\* Message::Message(IMAPMessage *, Folder &, time_t)
Message(mMsg, folder, syncDataTimestamp) ==
    [id |-> idForMessage(mMsg), folderId |-> folder.id, remoteUID |-> mMsg.uid,
     syncedAt |-> syncDataTimestamp, unread |-> mMsg.unread, starred |-> mMsg.starred,
     draft |-> mMsg.draft, labels |-> mMsg.labels, date |-> mMsg.date, threadId |-> 0]

\* MessageAttributesForMessage / MessageAttributesMatch
MessageAttributesForMessage(mMsg) ==
    [uid |-> mMsg.uid, unread |-> mMsg.unread, starred |-> mMsg.starred, draft |-> mMsg.draft, labels |-> mMsg.labels]

AttributesOfLocal(msg) ==
    [uid |-> msg.remoteUID, unread |-> msg.unread, starred |-> msg.starred, draft |-> msg.draft, labels |-> msg.labels]

MessageAttributesMatch(a, b) == a = b

----------------------------------------------------------------------------
\* MailProcessor

NoThread == 0

FirstRefs(references, n) == {references[i] : i \in 1..Min(n, Len(references))}

\* The threads the lookup of insertMessage can return: the thread with the
\* message's Gmail thread id, or else, unless the Message-Id is auto-generated,
\* the threads joined to a ThreadReference row of the message's own Message-Id
\* or of one of its first 50 references.
ThreadCandidates(S, mMsg) ==
    IF mMsg.gmailThreadID # 0
    THEN {t \in DOMAIN S.threads : S.threads[t].gThrId = mMsg.gmailThreadID}
    ELSE IF ~mMsg.autoGenerated
    THEN {r[1] : r \in {q \in S.refs : q[2] \in {mMsg.messageID} \cup FirstRefs(mMsg.references, LookupRefLimit)}} \cap DOMAIN S.threads
    ELSE {}

\* find / LIMIT 1: one of the candidates, or no thread
ThreadChoices(S, mMsg) == IF ThreadCandidates(S, mMsg) = {} THEN {NoThread} ELSE ThreadCandidates(S, mMsg)

\* INSERT OR IGNORE of the message's own Message-Id and its first 100 references
upsertThreadReferences(S, threadId, headerMessageId, references) ==
    [S EXCEPT !.refs = @ \cup {<<threadId, headerMessageId>>} \cup {<<threadId, r>> : r \in FirstRefs(references, UpsertRefLimit)}]

\* The body of insertMessage; thread is the row the lookup returned.  The
\* result says whether the transaction committed or a unique constraint
\* rolled it back, and holds the error code of the SQLite::Exception thrown
\* (0: none was).
insertMessage(S, mMsg, folder, syncDataTimestamp, thread) ==
    LET fresh == thread = NoThread
        tid == IF fresh THEN idForMessage(mMsg) ELSE thread
        row == IF fresh THEN [gThrId |-> mMsg.gmailThreadID] ELSE S.threads[tid]
        msg == [Message(mMsg, folder, syncDataTimestamp) EXCEPT !.threadId = tid]
        threadClash == fresh /\ tid \in DOMAIN S.threads
        msgClash == msg.id \in DOMAIN S.msgs
    IN IF threadClash THEN [S |-> rollbackTransaction(beginTransaction(S)), ok |-> FALSE, code |-> SQLITE_CONSTRAINT]
       ELSE IF msgClash
       THEN [S |-> rollbackTransaction(save(beginTransaction(S), "threads", "Thread", tid, row, TRUE)), ok |-> FALSE, code |-> SQLITE_CONSTRAINT]
       ELSE [S |-> commitTransaction(upsertThreadReferences(
                       save(save(beginTransaction(S), "threads", "Thread", tid, row, TRUE), "msgs", "Message", msg.id, msg, TRUE),
                       tid, mMsg.messageID, mMsg.references)),
             ok |-> TRUE, code |-> 0]

\* insertMessage when the database fails in its transaction with error code
insertMessageFailing(S, code) == [S |-> rollbackTransaction(beginTransaction(S)), ok |-> FALSE, code |-> code]

\* updateMessage without the write of remoteUID and remoteFolderId
updateMessageKeepingBinding(S0, local, remoteMsg, folder, syncDataTimestamp) ==
    LET S == [S0 EXCEPT !.seen = @ \cup {<<local.id, folder.id>>}]
        updated == MessageAttributesForMessage(remoteMsg)
        new == [local EXCEPT !.unread = updated.unread, !.starred = updated.starred,
                             !.draft = updated.draft, !.syncedAt = syncDataTimestamp,
                             !.labels = updated.labels]
    IN IF local.syncedAt > syncDataTimestamp THEN S
       ELSE commitTransaction(save(beginTransaction(S), "msgs", "Message", local.id, new, TRUE))

updateMessage(S0, local, remoteMsg, folder, syncDataTimestamp) ==
    LET S == [S0 EXCEPT !.seen = @ \cup {<<local.id, folder.id>>}]
        updated == MessageAttributesForMessage(remoteMsg)
        noChanges == /\ updated.unread = local.unread
                     /\ updated.starred = local.starred
                     /\ updated.draft = local.draft
                     /\ updated.uid = local.remoteUID
                     /\ folder.id = local.folderId
                     /\ updated.labels = local.labels
        new == [local EXCEPT !.unread = updated.unread, !.starred = updated.starred,
                             !.draft = updated.draft, !.remoteUID = updated.uid,
                             !.folderId = folder.id, !.syncedAt = syncDataTimestamp,
                             !.labels = updated.labels]
    IN IF local.syncedAt > syncDataTimestamp \/ noChanges THEN S
       ELSE commitTransaction(save(beginTransaction(S), "msgs", "Message", local.id, new, TRUE))

\* a catch block that falls back to the update after any error
FallbackAfterAnyError(ins, mMsg, folder, syncDataTimestamp) ==
    IF ins.ok THEN [S |-> ins.S, thrown |-> FALSE, code |-> ins.code]
    ELSE IF idForMessage(mMsg) \notin DOMAIN ins.S.msgs THEN [S |-> ins.S, thrown |-> TRUE, code |-> ins.code]
    ELSE [S |-> updateMessage(ins.S, ins.S.msgs[idForMessage(mMsg)], mMsg, folder, syncDataTimestamp), thrown |-> FALSE, code |-> ins.code]

\* The catch block of insertFallbackToUpdateMessage; ins is what insertMessage
\* left.  The result's thrown says whether the exception was rethrown: it was
\* no constraint failure, or no local message carries the id.  code is the
\* error code of the exception insertMessage threw.
FallbackToUpdate(ins, mMsg, folder, syncDataTimestamp) ==
    IF ins.ok THEN [S |-> ins.S, thrown |-> FALSE, code |-> ins.code]
    ELSE IF ins.code # SQLITE_CONSTRAINT THEN [S |-> ins.S, thrown |-> TRUE, code |-> ins.code]
    ELSE IF idForMessage(mMsg) \notin DOMAIN ins.S.msgs THEN [S |-> ins.S, thrown |-> TRUE, code |-> ins.code]
    ELSE [S |-> updateMessage(ins.S, ins.S.msgs[idForMessage(mMsg)], mMsg, folder, syncDataTimestamp), thrown |-> FALSE, code |-> ins.code]

insertFallbackToUpdateMessage(S0, mMsg, folder, syncDataTimestamp, thread) ==
    FallbackToUpdate(insertMessage([S0 EXCEPT !.seen = @ \cup {<<idForMessage(mMsg), folder.id>>}],
                                   mMsg, folder, syncDataTimestamp, thread),
                     mMsg, folder, syncDataTimestamp)

\* an unlink that tags every matched row, unlinked before or not
unlinkMessagesRetagging(S, matched, phase) ==
    LET T0 == beginTransaction(S)
        T1 == [T0 EXCEPT !.msgs = [i \in DOMAIN @ |->
                  IF i \in matched THEN [@[i] EXCEPT !.remoteUID = UINT32_MAX - phase] ELSE @[i]]]
    IN commitTransaction(T1)

\* an unlink that saves each message with a delta
unlinkMessagesEmitting(S, matched, phase) ==
    LET T0 == beginTransaction(S)
        T1 == [T0 EXCEPT !.msgs = [i \in DOMAIN @ |->
                  IF i \in matched /\ ~(@[i].remoteUID > UINT32_MAX - 5)
                  THEN [@[i] EXCEPT !.remoteUID = UINT32_MAX - phase]
                  ELSE @[i]],
                         !.txPending = @ \o [k \in 1..Cardinality({i \in matched \cap DOMAIN T0.msgs : ~(T0.msgs[i].remoteUID > UINT32_MAX - 5)})
                                                |-> [kind |-> "Message", op |-> "persist"]]]
    IN commitTransaction(T1)

\* matched: the ids of the rows the query selects.  Each is saved with
\* store->save(msg.get(), false), which queues no delta.
unlinkMessagesMatchingQuery(S, matched, phase) ==
    LET T0 == beginTransaction(S)
        T1 == [T0 EXCEPT !.msgs = [i \in DOMAIN @ |->
                  IF i \in matched /\ ~(@[i].remoteUID > UINT32_MAX - 5)
                  THEN [@[i] EXCEPT !.remoteUID = UINT32_MAX - phase]
                  ELSE @[i]]]
    IN commitTransaction(T1)

\* the rows a query with LIMIT n returns: the first n in the order of the ids
Limit(ids, n) == IF Cardinality(ids) <= n THEN ids ELSE {i \in ids : Cardinality({j \in ids : j < i}) < n}

\* a delete pass that takes the messages unlinked in either phase
deleteMessagesUnlinkedInAnyPhase(S, phase) ==
    LET messages == {i \in DOMAIN S.msgs : S.msgs[i].remoteUID \in {UINT32_MAX - 1, UINT32_MAX - 2}}
    IN commitTransaction(removeMessages(beginTransaction(S), Ascending(messages)))

\* a delete pass of one transaction, without the loop
deleteMessagesOfOneChunk(S, phase) ==
    LET messages == Limit({i \in DOMAIN S.msgs : S.msgs[i].remoteUID = UINT32_MAX - phase}, chunkSize)
    IN commitTransaction(removeMessages(beginTransaction(S), Ascending(messages)))

RECURSIVE deleteMessagesStillUnlinkedFromPhase(_, _)
deleteMessagesStillUnlinkedFromPhase(S, phase) ==
    LET messages == Limit({i \in DOMAIN S.msgs : S.msgs[i].remoteUID = UINT32_MAX - phase}, chunkSize)
        more == ~(Cardinality(messages) < chunkSize)
    IN IF more
       THEN deleteMessagesStillUnlinkedFromPhase(commitTransaction(removeMessages(beginTransaction(S), Ascending(messages))), phase)
       ELSE commitTransaction(removeMessages(beginTransaction(S), Ascending(messages)))

----------------------------------------------------------------------------
\* The IMAP session: what the server answers.  remote.msgs holds one record
\* per message in the mailbox; remote.vanished the expunged UIDs with the
\* modseq of their removal.

IMAPMessage(r) ==
    [m |-> r.m, uid |-> r.uid, unread |-> r.unread, starred |-> FALSE, draft |-> FALSE, labels |-> {},
     gmailThreadID |-> headers[r.m].gmailThreadID, messageID |-> headers[r.m].messageID,
     references |-> headers[r.m].references, autoGenerated |-> headers[r.m].autoGenerated,
     date |-> headers[r.m].date]

\* session.folderStatus
folderStatus(R, path) ==
    [uidNext |-> R.uidNext[path], uidValidity |-> R.uidValidity[path],
     highestModSeqValue |-> R.modSeq[path],
     messageCount |-> Cardinality({r \in R.msgs : r.path = path})]

\* session.fetchMessagesByUID over RangeMake(location, length), which holds the
\* UIDs location .. location + length
fetchMessagesByUID(R, path, location, length) == {r \in R.msgs : r.path = path /\ location <= r.uid /\ r.uid <= location + length}

\* session.syncMessagesByUID: the messages changed or added after modseq
modifiedOrAddedMessages(R, path, modseq) == {r \in R.msgs : r.path = path /\ r.modseq > modseq}

\* ... and, with QRESYNC, the UIDs that vanished after modseq
vanishedMessages(R, path, modseq) == {v.uid : v \in {x \in R.vanished : x.path = path /\ x.modseq > modseq}}

\* the remote messages of one folder by descending / ascending UID: the k-th
\* is the one with k - 1 messages above it
\* (above is the table of the ranks, merged with the empty map so that it
\* is computed once)
NewestFirst(rs) ==
    LET above == [x \in rs |-> Cardinality({y \in rs : y.uid > x.uid})] @@ EmptyMap
    IN [k \in 1..Cardinality(rs) |-> CHOOSE x \in rs : above[x] = k - 1]

RECURSIVE OldestFirst(_)
OldestFirst(rs) == IF rs = {} THEN <<>> ELSE LET lo == CHOOSE x \in rs : \A y \in rs : x.uid <= y.uid IN <<lo>> \o OldestFirst(rs \ {lo})

----------------------------------------------------------------------------
\* MailStore queries used by the SyncWorker

\* fetchMessagesAttributesInRange: uid -> attributes of the folder's messages
\* with a UID in the range
fetchMessagesAttributesInRange(S, location, length, folder) ==
    LET rows == {i \in DOMAIN S.msgs : S.msgs[i].folderId = folder.id /\ location <= S.msgs[i].remoteUID /\ S.msgs[i].remoteUID <= location + length}
        uids == {S.msgs[i].remoteUID : i \in rows}
    IN [u \in uids |-> AttributesOfLocal(S.msgs[CHOOSE i \in rows : S.msgs[i].remoteUID = u])]

\* fetchMessageUIDAtDepth: the UID of the folder's message at offset depth
\* below `before`, counting down, or 1
fetchMessageUIDAtDepth(S, folder, depth, before) ==
    LET uids == {S.msgs[i].remoteUID : i \in {j \in DOMAIN S.msgs : S.msgs[j].folderId = folder.id /\ S.msgs[j].remoteUID < before}}
        asc == Ascending(uids)
    IN IF Len(asc) > depth THEN asc[Len(asc) - depth] ELSE 1

\* the row the engine returns first for the thread lookup
FirstThread(S, mMsg) == CHOOSE t \in ThreadChoices(S, mMsg) : TRUE

----------------------------------------------------------------------------
\* SyncWorker.  Every routine takes the store S, the server's mailbox R, the
\* worker's in-memory Folder object, the time t of the call and whether the
\* IMAP request errs; it yields the store, the Folder object as mutated, and
\* thrown when an exception leaves the routine.

\* What a throw statement throws: the type of the object and, for a
\* SyncException, whether it is retryable.  SQLite::Exception and the
\* exceptions of the json library derive from std::exception.
Exception(type) == [type |-> type, retryable |-> FALSE]

NoException == Exception("")

\* One iteration of the loop of syncFolderUIDRange; local is the attribute
\* map loaded before the loop, acc the store so far.
ApplyOne(acc, remoteMsg, local, folder, t) ==
    IF remoteMsg.uid \notin DOMAIN local \/ ~MessageAttributesMatch(local[remoteMsg.uid], MessageAttributesForMessage(remoteMsg))
    THEN insertFallbackToUpdateMessage(acc.S, remoteMsg, folder, t, FirstThread(acc.S, remoteMsg))
    ELSE acc

\* The loop of syncFolderUIDRange over the fetched messages, in their order:
\* the first half of them, then the rest.  acc is the store so far and
\* whether an exception has left the loop.
RECURSIVE ApplyRange(_, _, _, _, _)
ApplyRange(acc, remoteMsgs, local, folder, t) ==
    IF remoteMsgs = <<>> \/ acc.thrown THEN acc
    ELSE IF Len(remoteMsgs) > 1
    THEN ApplyRange(ApplyRange(acc, SubSeq(remoteMsgs, 1, Len(remoteMsgs) \div 2), local, folder, t),
                    SubSeq(remoteMsgs, Len(remoteMsgs) \div 2 + 1, Len(remoteMsgs)), local, folder, t)
    ELSE ApplyOne(acc, IMAPMessage(Head(remoteMsgs)), local, folder, t)

\* an unlink whose query leaves out the folder
UnlinkMissingInAnyFolder(applied, deletedUIDs, folder, phase) ==
    IF applied.thrown \/ deletedUIDs = {} THEN applied
    ELSE [S |-> unlinkMessagesMatchingQuery(applied.S, {i \in DOMAIN applied.S.msgs : applied.S.msgs[i].remoteUID \in deletedUIDs}, phase),
          thrown |-> FALSE]

\* Step 5 of syncFolderUIDRange: the messages the map held and the server did
\* not report are unlinked; applied is what the loop left
UnlinkMissing(applied, deletedUIDs, folder, phase) ==
    IF applied.thrown \/ deletedUIDs = {} THEN applied
    ELSE [S |-> unlinkMessagesMatchingQuery(applied.S,
                    {i \in DOMAIN applied.S.msgs : applied.S.msgs[i].folderId = folder.id /\ applied.S.msgs[i].remoteUID \in deletedUIDs},
                    phase),
          thrown |-> FALSE]

\* a range sync that takes a failed fetch for an empty answer
syncFolderUIDRangeTrustingFailure(S, R, folder, location, length, phase, t, err) ==
    LET remoteMsgs == IF err THEN {} ELSE fetchMessagesByUID(R, folder.path, location, length)
    IN UnlinkMissing(ApplyRange([S |-> S, thrown |-> FALSE], NewestFirst(remoteMsgs),
                                fetchMessagesAttributesInRange(S, location, length, folder), folder, t),
                     DOMAIN fetchMessagesAttributesInRange(S, location, length, folder) \ {r.uid : r \in remoteMsgs},
                     folder, phase)

syncFolderUIDRange(S, R, folder, location, length, phase, t, err) ==
    LET remoteMsgs == fetchMessagesByUID(R, folder.path, location, length)
    IN IF err THEN [S |-> S, thrown |-> FALSE]
       ELSE UnlinkMissing(ApplyRange([S |-> S, thrown |-> FALSE], NewestFirst(remoteMsgs),
                                     fetchMessagesAttributesInRange(S, location, length, folder), folder, t),
                          DOMAIN fetchMessagesAttributesInRange(S, location, length, folder) \ {r.uid : r \in remoteMsgs},
                          folder, phase)

\* what a scan hands back: the store and the exception of syncFolderUIDRange,
\* the Folder object with its localStatus as the scan's caller set it, and
\* the caller's return value
Scanned(scan, folder, result) == [S |-> scan.S, folder |-> folder, thrown |-> scan.thrown, result |-> result]

\* a deep scan that begins again every ten minutes on every server
syncFolderFullScanEveryTenMinutes(S, R, folder, remoteStatus, phase, t, err) ==
    LET ls == folder.localStatus
        storedHead == IF "fullScanHead" \in DOMAIN ls THEN ls["fullScanHead"] ELSE UINT32_MAX
        fullScanTime == IF "fullScanTime" \in DOMAIN ls THEN ls["fullScanTime"] ELSE 0
        starting == (storedHead = UINT32_MAX) \/ (t - fullScanTime > TEN_MINUTES)
        ls1 == IF starting THEN Put(ls, "uidnext", remoteStatus.uidNext) ELSE ls
        fullScanHead == IF starting THEN remoteStatus.uidNext ELSE storedHead
        fullScanChunkSize == IF starting THEN FreshScanChunkSize ELSE FullScanChunkSize
        chunkNextHead == IF remoteStatus.messageCount < fullScanChunkSize THEN 1
                         ELSE IF fullScanHead > fullScanChunkSize THEN fullScanHead - fullScanChunkSize ELSE 1
        ls2 == Put(Put(ls1, "fullScanHead", chunkNextHead), "fullScanTime", t)
    IN IF fullScanHead = 1
       THEN [S |-> S, folder |-> [folder EXCEPT !.localStatus = ls1], thrown |-> FALSE, result |-> FALSE]
       ELSE Scanned(syncFolderUIDRange(S, R, folder, chunkNextHead, fullScanHead - chunkNextHead, phase, t, err),
                    [folder EXCEPT !.localStatus = ls2], TRUE)

syncFolderFullScanIncremental(S, R, folder, remoteStatus, phase, t, err) ==
    LET ls == folder.localStatus
        storedHead == IF "fullScanHead" \in DOMAIN ls THEN ls["fullScanHead"] ELSE UINT32_MAX
        fullScanTime == IF "fullScanTime" \in DOMAIN ls THEN ls["fullScanTime"] ELSE 0
        starting == (storedHead = UINT32_MAX) \/ (~caps.qresync /\ (t - fullScanTime > TEN_MINUTES))
        ls1 == IF starting THEN Put(ls, "uidnext", remoteStatus.uidNext) ELSE ls
        fullScanHead == IF starting THEN remoteStatus.uidNext ELSE storedHead
        fullScanChunkSize == IF starting THEN FreshScanChunkSize ELSE FullScanChunkSize
        chunkNextHead == IF remoteStatus.messageCount < fullScanChunkSize THEN 1
                         ELSE IF fullScanHead > fullScanChunkSize THEN fullScanHead - fullScanChunkSize ELSE 1
        ls2 == Put(Put(ls1, "fullScanHead", chunkNextHead), "fullScanTime", t)
    IN IF fullScanHead = 1
       THEN [S |-> S, folder |-> [folder EXCEPT !.localStatus = ls1], thrown |-> FALSE, result |-> FALSE]
       ELSE Scanned(syncFolderUIDRange(S, R, folder, chunkNextHead, fullScanHead - chunkNextHead, phase, t, err),
                    [folder EXCEPT !.localStatus = ls2], TRUE)

syncFolderChangesViaShallowScan(S, R, folder, remoteStatus, phase, t, err) ==
    LET uidnext == remoteStatus.uidNext
        bottomUID == fetchMessageUIDAtDepth(S, folder, ShallowDepth, uidnext)
    IN Scanned(syncFolderUIDRange(S, R, folder, bottomUID, uidnext - bottomUID, phase, t, err),
               [folder EXCEPT !.localStatus = Put(@, "uidnext", uidnext)], FALSE)

\* The loop of syncFolderChangesViaCondstore over modifiedOrAdded; local is the
\* id -> Message map loaded before the loop, acc the store so far and whether
\* an exception has left the loop.
RECURSIVE ApplyModified(_, _, _, _, _)
ApplyModified(acc, msgs, local, folder, t) ==
    IF msgs = <<>> \/ acc.thrown THEN acc
    ELSE LET msg == IMAPMessage(Head(msgs))
             id == idForMessage(msg)
         IN IF id \notin DOMAIN local
            THEN ApplyModified(insertFallbackToUpdateMessage(acc.S, msg, folder, t, FirstThread(acc.S, msg)),
                               Tail(msgs), local, folder, t)
            ELSE ApplyModified([S |-> updateMessage(acc.S, local[id], msg, folder, t), thrown |-> FALSE],
                               Tail(msgs), local, folder, t)

\* last lines that leave highestmodseq as it was
StatusWithoutModseq(after, remoteStatus) ==
    IF after.thrown THEN after
    ELSE [S |-> after.S,
          folder |-> [after.folder EXCEPT !.localStatus = Put(@, "uidnext", remoteStatus.uidNext)],
          thrown |-> FALSE, shallow |-> after.shallow]

\* syncFolderChangesViaCondstore, the last lines: uidnext and highestmodseq
\* are set on the Folder object; after is what the handling of deletions left
StatusUpdated(after, remoteStatus) ==
    IF after.thrown THEN after
    ELSE [S |-> after.S,
          folder |-> [after.folder EXCEPT !.localStatus = Put(Put(@, "uidnext", remoteStatus.uidNext),
                                                              "highestmodseq", remoteStatus.highestModSeqValue)],
          thrown |-> FALSE, shallow |-> after.shallow]

\* the result of a shallow scan, marked as one
ShallowScanned(scan) == [S |-> scan.S, folder |-> scan.folder, thrown |-> scan.thrown, shallow |-> TRUE]

\* a handling of deletions that runs the shallow scan in every case
DeletionsByShallowScan(applied, R, folder, remoteStatus, modseq, phase, t, fetchErr) ==
    IF applied.thrown THEN [S |-> applied.S, folder |-> folder, thrown |-> TRUE, shallow |-> FALSE]
    ELSE ShallowScanned(syncFolderChangesViaShallowScan(applied.S, R, folder, remoteStatus, phase, t, fetchErr))

\* syncFolderChangesViaCondstore, deletions: the vanished UIDs the result
\* carries are unlinked; when it carries none (vanishedMessages() is NULL: the
\* server has no QRESYNC, or sent no VANISHED response) a shallow scan runs.
\* applied is what the loop left; shallow records whether the scan was called.
DeletionsApplied(applied, R, folder, remoteStatus, modseq, phase, t, fetchErr) ==
    IF applied.thrown THEN [S |-> applied.S, folder |-> folder, thrown |-> TRUE, shallow |-> FALSE]
    ELSE IF caps.qresync /\ vanishedMessages(R, folder.path, modseq) # {}
    THEN [S |-> unlinkMessagesMatchingQuery(applied.S,
                    {i \in DOMAIN applied.S.msgs : /\ applied.S.msgs[i].folderId = folder.id
                                                   /\ applied.S.msgs[i].remoteUID \in vanishedMessages(R, folder.path, modseq)},
                    phase),
          folder |-> folder, thrown |-> FALSE, shallow |-> FALSE]
    ELSE ShallowScanned(syncFolderChangesViaShallowScan(applied.S, R, folder, remoteStatus, phase, t, fetchErr))

syncFolderChangesViaCondstore(S, R, folder, remoteStatus, phase, t, syncErr, fetchErr) ==
    LET hasModseq == "highestmodseq" \in DOMAIN folder.localStatus
        modseq == IF hasModseq THEN folder.localStatus["highestmodseq"] ELSE 0
        remoteModseq == remoteStatus.highestModSeqValue
        modifiedOrAdded == modifiedOrAddedMessages(R, folder.path, modseq)
        local == [i \in {idForMessage(IMAPMessage(r)) : r \in modifiedOrAdded} \cap DOMAIN S.msgs |-> S.msgs[i]]
    IN IF ~hasModseq THEN [S |-> S, folder |-> folder, thrown |-> TRUE, shallow |-> FALSE]
       ELSE IF modseq = remoteModseq THEN [S |-> S, folder |-> folder, thrown |-> FALSE, shallow |-> FALSE]
       ELSE IF syncErr THEN [S |-> S, folder |-> folder, thrown |-> FALSE, shallow |-> FALSE]
       ELSE StatusUpdated(DeletionsApplied(ApplyModified([S |-> S, thrown |-> FALSE], OldestFirst(modifiedOrAdded), local, folder, t),
                                           R, folder, remoteStatus, modseq, phase, t, fetchErr),
                          remoteStatus)

\* retrievedMessageBody: the body row is replaced and the message saved
retrievedMessageBody(S, message) ==
    LET T0 == beginTransaction(S)
        T1 == [T0 EXCEPT !.bodies = @ \cup {message.id}]
    IN commitTransaction(save(T1, "msgs", "Message", message.id, message, TRUE))

\* the fetch errs when the request fails or the server has no such UID
syncMessageBody(S, R, folderPath, message, err) ==
    IF err \/ ~(\E r \in R.msgs : r.path = folderPath /\ r.uid = message.remoteUID) THEN S
    ELSE retrievedMessageBody(S, message)

RECURSIVE FetchBodies(_, _, _, _, _)
FetchBodies(S, R, folderPath, results, err) ==
    IF results = <<>> THEN S
    ELSE FetchBodies(syncMessageBody(S, R, folderPath, Head(results), err), R, folderPath, Tail(results), err)

\* a backfill whose query has no LIMIT
syncAllMessageBodies(S, R, folder, t, err) ==
    LET missing == {i \in DOMAIN S.msgs : /\ S.msgs[i].folderId = folder.id
                                           /\ (S.msgs[i].date > t - OneMonth \/ S.msgs[i].draft)
                                           /\ i \notin S.bodies}
        ids == Ascending(missing)
        results == [k \in 1..Len(ids) |-> S.msgs[ids[k]]]
    IN IF folder.role = "spam" \/ folder.role = "trash" THEN [S |-> S, result |-> FALSE]
       ELSE [S |-> FetchBodies(S, R, folder.path, results, err), result |-> Len(results) > 0]

syncMessageBodies(S, R, folder, t, err) ==
    LET missing == {i \in DOMAIN S.msgs : /\ S.msgs[i].folderId = folder.id
                                           /\ (S.msgs[i].date > t - OneMonth \/ S.msgs[i].draft)
                                           /\ i \notin S.bodies}
        ids == Ascending(Limit(missing, BodyLimit))
        results == [k \in 1..Len(ids) |-> S.msgs[ids[k]]]
    IN IF folder.role = "spam" \/ folder.role = "trash" THEN [S |-> S, result |-> FALSE]
       ELSE [S |-> FetchBodies(S, R, folder.path, results, err), result |-> Len(results) > 0]

\* MailUtils::roleForFolder: the role the folder's flags and path stand for
roleForFolder(remoteF) == remoteF.role

Folder(id) == [id |-> id, path |-> "", role |-> "", localStatus |-> EmptyMap]

Label(id) == [id |-> id, path |-> "", role |-> "", localStatus |-> EmptyMap]

RECURSIVE AnyOrder(_)
AnyOrder(s) == IF s = {} THEN <<>> ELSE LET x == CHOOSE y \in s : TRUE IN <<x>> \o AnyOrder(s \ {x})

RECURSIVE removeAll(_, _, _, _)
removeAll(S, table, kind, ids) == IF ids = <<>> THEN S ELSE removeAll(remove(S, table, kind, Head(ids)), table, kind, Tail(ids))

\* the loop of syncFoldersAndLabels over the remote folders, last to first;
\* acc holds the store, the local folders and labels not yet matched, and
\* foldersToSync
RECURSIVE ReconcileFolders(_, _, _, _, _)
ReconcileFolders(acc, remoteFolders, ii, atStart, isGmail) ==
    IF ii = 0 THEN acc
    ELSE LET remoteF == remoteFolders[ii]
             remoteRole == roleForFolder(remoteF)
             remoteId == idForFolder(remoteF.path)
             remotePath == remoteF.path
             asLabel == isGmail /\ remoteRole # "all" /\ remoteRole # "spam" /\ remoteRole # "trash"
             local == IF asLabel
                      THEN IF remoteId \in acc.allLocalLabels THEN atStart.labels[remoteId] ELSE Label(remoteId)
                      ELSE IF remoteId \in acc.allLocalFolders THEN atStart.folders[remoteId] ELSE Folder(remoteId)
             differs == local.role # remoteRole \/ local.path # remotePath
             updated == IF differs THEN [local EXCEPT !.path = remotePath, !.role = remoteRole] ELSE local
             counted == [acc.S EXCEPT !.counts = @ \cup {remoteId}]
             S1 == IF ~differs THEN acc.S
                   ELSE IF asLabel THEN save(counted, "labels", "Label", remoteId, updated, TRUE)
                   ELSE save(counted, "folders", "Folder", remoteId, updated, TRUE)
             next == [S |-> S1,
                      allLocalFolders |-> IF asLabel THEN acc.allLocalFolders ELSE acc.allLocalFolders \ {remoteId},
                      allLocalLabels |-> IF asLabel THEN acc.allLocalLabels \ {remoteId} ELSE acc.allLocalLabels,
                      foldersToSync |-> IF asLabel THEN acc.foldersToSync ELSE Append(acc.foldersToSync, updated)]
         IN IF remoteF.noSelect THEN ReconcileFolders(acc, remoteFolders, ii - 1, atStart, isGmail)
            ELSE ReconcileFolders(next, remoteFolders, ii - 1, atStart, isGmail)

\* leftovers that are removed with their ThreadCounts rows left in place
LeftOverRemovedOnly(done) ==
    [S |-> commitTransaction(removeAll(removeAll(done.S, "folders", "Folder", AnyOrder(done.allLocalFolders)),
                                       "labels", "Label", AnyOrder(done.allLocalLabels))),
     foldersToSync |-> done.foldersToSync, thrown |-> FALSE, ex |-> NoException]

\* syncFoldersAndLabels after its loop: the folders and labels the server no
\* longer lists are removed, each with its ThreadCounts row, and the
\* transaction commits; done is what the loop left
LeftOverRemoved(done) ==
    [S |-> commitTransaction(removeAll(removeAll([done.S EXCEPT !.counts = @ \ (done.allLocalFolders \cup done.allLocalLabels)],
                                                 "folders", "Folder", AnyOrder(done.allLocalFolders)),
                                       "labels", "Label", AnyOrder(done.allLocalLabels))),
     foldersToSync |-> done.foldersToSync, thrown |-> FALSE, ex |-> NoException]

syncFoldersAndLabels(S, R, err) ==
    IF err THEN [S |-> S, foldersToSync |-> <<>>, thrown |-> TRUE, ex |-> Exception("char const*")]
    ELSE LeftOverRemoved(ReconcileFolders([S |-> beginTransaction(S), allLocalFolders |-> DOMAIN S.folders,
                                           allLocalLabels |-> DOMAIN S.labels, foldersToSync |-> <<>>],
                                          R.folders, Len(R.folders), S, caps.gmail))

\* the comparator of syncNow's sort: the position of the role in roleOrder,
\* or one past the end
Rank(role) == IF \E k \in 1..Len(roleOrder) : roleOrder[k] = role THEN CHOOSE k \in 1..Len(roleOrder) : roleOrder[k] = role ELSE Len(roleOrder) + 1

\* the folders in any order at all
RECURSIVE Unsorted(_)
Unsorted(fs) ==
    IF fs = {} THEN {<<>>}
    ELSE UNION {{<<f>> \o rest : rest \in Unsorted(fs \ {f})} : f \in fs}

\* every order std::sort may leave the folders in: ascending rank, folders of
\* equal rank in any order
RECURSIVE SortedByRole(_)
SortedByRole(fs) ==
    IF fs = {} THEN {<<>>}
    ELSE UNION {{<<f>> \o rest : rest \in SortedByRole(fs \ {f})} : f \in {g \in fs : \A h \in fs : Rank(g.role) <= Rank(h.role)}}

\* The body of syncNow's loop for one folder, last statement first.  fail
\* names the IMAP request that errs in this step, if any; ex is the exception
\* that leaves the loop when thrown.

\* store->save(folder.get()); bodies is what syncMessageBodies left
FolderSaved(bodies, folder, deepResult) ==
    [S |-> save(bodies.S, "folders", "Folder", folder.id, folder, TRUE), folder |-> folder,
     more |-> bodies.result \/ deepResult, thrown |-> FALSE, ex |-> NoException]

\* syncMessageBodies; chg is what the sync of the changes left
BodiesSynced(chg, deepResult, R, t, fail) ==
    IF chg.thrown THEN [S |-> chg.S, folder |-> chg.folder, more |-> FALSE, thrown |-> TRUE, ex |-> Exception("std::exception")]
    ELSE FolderSaved(syncMessageBodies(chg.S, R, chg.folder, t, fail = "body"), chg.folder, deepResult)

\* the sync of the changes, by CONDSTORE or by a shallow scan; deep is what
\* syncFolderFullScanIncremental left
ChangesSynced(deep, R, remoteStatus, phase, t, fail) ==
    IF deep.thrown THEN [S |-> deep.S, folder |-> deep.folder, more |-> FALSE, thrown |-> TRUE, ex |-> Exception("std::exception")]
    ELSE BodiesSynced(IF caps.condstore
                      THEN syncFolderChangesViaCondstore(deep.S, R, deep.folder, remoteStatus, phase, t, fail = "sync", fail = "shallow")
                      ELSE syncFolderChangesViaShallowScan(deep.S, R, deep.folder, remoteStatus, phase, t, fail = "shallow"),
                      deep.result, R, t, fail)

syncNowFolder(S, R, folder, phase, t, fail) ==
    LET remoteStatus == folderStatus(R, folder.path)
        ls0 == folder.localStatus
        ls1 == IF DOMAIN ls0 = {}
               THEN Put(Put(ls0, "highestmodseq", remoteStatus.highestModSeqValue), "uidvalidity", remoteStatus.uidValidity)
               ELSE ls0
        f1 == [folder EXCEPT !.localStatus = ls1]
    IN IF fail = "status" THEN [S |-> S, folder |-> folder, more |-> FALSE, thrown |-> TRUE, ex |-> Exception("ErrorCode")]
       ELSE IF "uidvalidity" \notin DOMAIN ls1 THEN [S |-> S, folder |-> f1, more |-> FALSE, thrown |-> TRUE, ex |-> Exception("std::exception")]
       ELSE IF ls1["uidvalidity"] # remoteStatus.uidValidity THEN [S |-> S, folder |-> f1, more |-> FALSE, thrown |-> TRUE, ex |-> Exception("char const*")]
       ELSE ChangesSynced(syncFolderFullScanIncremental(S, R, f1, remoteStatus, phase, t, fail = "deep"),
                          R, remoteStatus, phase, t, fail)

----------------------------------------------------------------------------
\* The state the sync specifications start in.

Msgs == 1..NumMsgs

\* the time the process starts at, and the dates of a recent and an old message
StartTime == 3000000
RecentDate == 2999000
OldDate == 100

PlainHeaders == [m \in Msgs |-> [messageID |-> m, references |-> <<>>, gmailThreadID |-> 0, autoGenerated |-> FALSE,
                                 date |-> IF m % 2 = 1 THEN RecentDate ELSE OldDate]]

TwoFolders == << [path |-> "INBOX", role |-> "inbox", noSelect |-> FALSE],
                 [path |-> "Archive", role |-> "archive", noSelect |-> FALSE] >>

Paths(R) == {R.folders[i].path : i \in 1..Len(R.folders)}

\* a mailbox holding message 1 in the inbox
OneInInbox ==
    [folders |-> TwoFolders,
     uidValidity |-> [p \in {"INBOX", "Archive"} |-> 1],
     uidNext |-> [p \in {"INBOX", "Archive"} |-> IF p = "INBOX" THEN 2 ELSE 1],
     modSeq |-> [p \in {"INBOX", "Archive"} |-> 1],
     msgs |-> {[m |-> 1, path |-> "INBOX", uid |-> 1, unread |-> FALSE, modseq |-> 1]},
     vanished |-> {}]

Capabilities == {c \in [condstore : BOOLEAN, qresync : BOOLEAN, gmail : BOOLEAN] : c.qresync => c.condstore}

\* main(): bgWorker and fgWorker are constructed, bgThread is started
NewWorker == [pc |-> "off", unlinkPhase |-> 1, folders |-> <<>>, idx |-> 0, syncAgainImmediately |-> FALSE,
              idleShouldReloop |-> FALSE, idleFetchBodyIDs |-> <<>>, inbox |-> Folder(<<>>), local |-> <<>>]

NoHistory ==
    [cycle |-> 0, limit |-> MaxCycles, ops |-> 0, ticks |-> 0, lastChange |-> 0, requests |-> 0, performed |-> <<>>, retried |-> {}, call |-> [op |-> "", id |-> 0, ts |-> 0], kinds |-> {}, returned |-> <<>>, order |-> <<>>,
     started |-> 0, more |-> {}, failed |-> "", invalid |-> <<>>, faults |-> {"list", "status", "deep", "shallow", "sync", "body"},
     unl |-> [m \in Msgs |-> 0], unlFolder |-> [m \in Msgs |-> <<>>],
     obs |-> [m \in Msgs |-> 0], obsFolder |-> [m \in Msgs |-> <<>>],
     fgUnl |-> [m \in Msgs |-> 0], aborted |-> [cycle |-> 0, done |-> 0]]

InitBg ==
    /\ store = EmptyStore
    /\ remote = OneInInbox
    /\ caps \in {c \in Capabilities : ~c.gmail}
    /\ headers = PlainHeaders
    /\ now = StartTime
    /\ bg = [NewWorker EXCEPT !.pc = "syncNow"]
    /\ fg = NewWorker
    /\ main = [pc |-> "listen"]
    /\ hist = NoHistory

----------------------------------------------------------------------------
\* The IMAP server's side: other clients change the mailbox while the process
\* runs.

\* an uncaught exception on any thread ends the process; so do terminate()
\* and the return of main
Running == bg.pc # "dead" /\ fg.pc # "dead" /\ main.pc \notin {"dead", "terminated", "exited"}

Expunged(R, r) ==
    [R EXCEPT !.msgs = @ \ {r}, !.modSeq[r.path] = @ + 1,
              !.vanished = @ \cup {[path |-> r.path, uid |-> r.uid, modseq |-> R.modSeq[r.path] + 1]}]

Appended(R, m, path, unread) ==
    [R EXCEPT !.msgs = @ \cup {[m |-> m, path |-> path, uid |-> R.uidNext[path], unread |-> unread, modseq |-> R.modSeq[path] + 1]},
              !.uidNext[path] = @ + 1, !.modSeq[path] = @ + 1]

\* a new UIDVALIDITY: the folder's messages get UIDs from 1 in their old order
RECURSIVE Renumbered(_, _)
Renumbered(rs, first) ==
    IF rs = <<>> THEN {} ELSE {[Head(rs) EXCEPT !.uid = first]} \cup Renumbered(Tail(rs), first + 1)

Changed(R) ==
    /\ Running /\ hist.ops < MaxEnvOps
    /\ remote' = R
    /\ hist' = [hist EXCEPT !.ops = @ + 1, !.lastChange = hist.cycle]
    /\ UNCHANGED <<store, caps, headers, now, bg, fg, main>>

RemoteAppend(m, path) ==
    /\ \A r \in remote.msgs : r.m # m
    /\ Changed(Appended(remote, m, path, TRUE))

RemoteExpunge(m) ==
    \E r \in remote.msgs : r.m = m /\ Changed(Expunged(remote, r))

RemoteMove(m, path) ==
    \E r \in remote.msgs : r.m = m /\ r.path # path /\ Changed(Appended(Expunged(remote, r), m, path, r.unread))

RemoteFlag(m) ==
    \E r \in remote.msgs :
        /\ r.m = m
        /\ Changed([remote EXCEPT !.msgs = (@ \ {r}) \cup {[r EXCEPT !.unread = ~@, !.modseq = remote.modSeq[r.path] + 1]},
                                  !.modSeq[r.path] = @ + 1])

RemoteUidValidity(path) ==
    LET here == {r \in remote.msgs : r.path = path}
    IN Changed([remote EXCEPT !.msgs = (@ \ here) \cup Renumbered(OldestFirst(here), 1),
                              !.uidValidity[path] = @ + 1,
                              !.uidNext[path] = Cardinality(here) + 1,
                              !.vanished = {v \in @ : v.path # path}])

\* The clock matters in steps of ten minutes; it is advanced while the
\* background thread sleeps.
Tick ==
    /\ Running /\ bg.pc = "sleep" /\ hist.ticks < MaxTicks
    /\ now' = now + TickSeconds
    /\ hist' = [hist EXCEPT !.ticks = @ + 1]
    /\ UNCHANGED <<store, remote, caps, headers, bg, fg, main>>

----------------------------------------------------------------------------
\* The background thread: runBackgroundSyncWorker calling syncNow.

Failures == {"none", "status", "deep", "shallow", "sync", "body"}

\* the kinds of the deltas the handler that ran last handed to the observer
DeltaKinds(S) == {S.log[i].kind : i \in {j \in 1..Len(S.log) : S.log[j].ev = "emit"}}

Unlinked(S, i) == i \in DOMAIN S.msgs /\ S.msgs[i].remoteUID > UINT32_MAX - 5

\* the messages a step from store S to store T unlinked
NewlyUnlinked(S, T) == {i \in DOMAIN S.msgs \cap DOMAIN T.msgs : Unlinked(T, i) /\ ~Unlinked(S, i)}

\* what a step of the background worker, taking the store from S to T while in
\* the folder with id fid, adds to the history of message i
Noted(h, S, T, fid, i) ==
    IF i \notin DOMAIN S.msgs /\ i \in DOMAIN T.msgs
    THEN [unl |-> 0, unlFolder |-> <<>>, obs |-> 0, obsFolder |-> <<>>]
    ELSE IF Unlinked(T, i) /\ ~Unlinked(S, i)
    THEN [unl |-> h.cycle, unlFolder |-> T.msgs[i].folderId, obs |-> 0, obsFolder |-> <<>>]
    ELSE IF <<i, fid>> \in T.seen /\ h.unl[i] # 0
    THEN [unl |-> h.unl[i], unlFolder |-> h.unlFolder[i], obs |-> h.cycle, obsFolder |-> fid]
    ELSE [unl |-> h.unl[i], unlFolder |-> h.unlFolder[i], obs |-> h.obs[i], obsFolder |-> h.obsFolder[i]]

NotedAll(h, S, T, fid) ==
    [h EXCEPT !.unl = [i \in Msgs |-> Noted(h, S, T, fid, i).unl],
              !.unlFolder = [i \in Msgs |-> Noted(h, S, T, fid, i).unlFolder],
              !.obs = [i \in Msgs |-> Noted(h, S, T, fid, i).obs],
              !.obsFolder = [i \in Msgs |-> Noted(h, S, T, fid, i).obsFolder],
              !.kinds = @ \cup DeltaKinds(T)]

\* a syncNow that catches what its loop throws and goes on to its end
AfterThrowFinish(ex) == "finish"

\* runBackgroundSyncWorker's handler, catch (SyncException & ex) with a rethrow
\* unless ex.isRetryable(): where the thread is after syncNow threw ex.  An
\* exception that is not caught ends the thread, and the process with it.
AfterThrow(ex) == IF ex.type = "SyncException" /\ ex.retryable THEN "sleep" ELSE "dead"

\* a loop that sleeps after every pass
AlwaysSleep(moreToSync) == "sleep"

\* runBackgroundSyncWorker after syncNow returned moreToSync: the inner
\* loop goes round, or it ends and sleep(120) follows
AfterPass(moreToSync) == IF moreToSync THEN "syncNow" ELSE "sleep"

\* a loop that makes the thread after every pass
ForegroundStartedAgain(W) == [W |-> [W EXCEPT !.pc = "drain"], created |-> 1]

\* if (!fgThread) fgThread = new std::thread(runForegroundSyncWorker);
\* created counts the threads made
ForegroundStarted(W) ==
    IF W.pc = "off" THEN [W |-> [W EXCEPT !.pc = "drain"], created |-> 1] ELSE [W |-> W, created |-> 0]

\* syncNow up to its loop: the folder list is reconciled and sorted
BgSyncNow ==
    /\ Running /\ bg.pc = "syncNow" /\ hist.cycle < hist.limit
    /\ \E err \in {FALSE, "list" \in hist.faults} :
         \E res \in {syncFoldersAndLabels(AtRest(store), remote, err)} :
            /\ store' = res.S
            /\ hist' = [hist EXCEPT !.cycle = @ + 1, !.kinds = DeltaKinds(res.S), !.order = <<>>, !.more = {},
                                    !.failed = IF err THEN "list" ELSE "",
                                    !.aborted = IF res.thrown THEN [cycle |-> hist.cycle + 1, done |-> Len(hist.returned)] ELSE @]
            /\ IF res.thrown
               THEN bg' = [bg EXCEPT !.pc = AfterThrow(res.ex)]
               ELSE \E folders \in SortedByRole(SeqRange(res.foldersToSync)) :
                      bg' = [bg EXCEPT !.pc = IF folders = <<>> THEN "finish" ELSE "folder",
                                       !.folders = folders, !.idx = 1, !.syncAgainImmediately = FALSE]
    /\ UNCHANGED <<remote, caps, headers, now, fg, main>>

\* one iteration of syncNow's loop
BgSyncFolder ==
    /\ Running /\ bg.pc = "folder"
    /\ \E fail \in {"none"} \cup (Failures \cap hist.faults) :
         \E res \in {syncNowFolder(AtRest(store), remote, bg.folders[bg.idx], bg.unlinkPhase, now, fail)} :
            /\ store' = res.S
            /\ hist' = [NotedAll(hist, store, res.S, bg.folders[bg.idx].id)
                           EXCEPT !.order = Append(@, bg.folders[bg.idx].role),
                                  !.more = IF res.thrown THEN @ ELSE @ \cup {res.more},
                                  !.failed = IF res.thrown /\ fail = "status" THEN "status" ELSE @,
                                  !.invalid = IF res.thrown /\ res.ex = Exception("char const*") THEN res.folder.id ELSE @,
                                  !.aborted = IF res.thrown THEN [cycle |-> hist.cycle, done |-> Len(hist.returned)] ELSE @]
            /\ IF res.thrown
               THEN bg' = [bg EXCEPT !.pc = AfterThrow(res.ex)]
               ELSE bg' = [bg EXCEPT !.pc = IF bg.idx = Len(bg.folders) THEN "finish" ELSE "folder",
                                     !.folders[bg.idx] = res.folder,
                                     !.idx = @ + 1,
                                     !.syncAgainImmediately = @ \/ res.more]
    /\ UNCHANGED <<remote, caps, headers, now, fg, main>>

\* the end of syncNow (the phase flips, the delete pass runs) and the return
\* into runBackgroundSyncWorker, which starts the foreground thread once
BgFinish ==
    /\ Running /\ bg.pc = "finish"
    /\ \E unlinkPhase \in {IF bg.unlinkPhase = 1 THEN 2 ELSE 1}, thread \in {ForegroundStarted(fg)} :
         \E S \in {deleteMessagesStillUnlinkedFromPhase(AtRest(store), unlinkPhase)} :
            /\ store' = S
            /\ bg' = [bg EXCEPT !.unlinkPhase = unlinkPhase, !.pc = AfterPass(bg.syncAgainImmediately)]
            /\ fg' = thread.W
            /\ hist' = [hist EXCEPT !.kinds = @ \cup DeltaKinds(S), !.returned = Append(@, bg.syncAgainImmediately),
                                    !.started = @ + thread.created]
    /\ UNCHANGED <<remote, caps, headers, now, main>>

\* sleep(120) is over
BgWake ==
    /\ Running /\ bg.pc = "sleep"
    /\ bg' = [bg EXCEPT !.pc = "syncNow"]
    /\ now' = now + SleepSeconds
    /\ UNCHANGED <<store, remote, caps, headers, fg, main, hist>>

Environment ==
    \/ \E m \in Msgs, path \in Paths(remote) : RemoteAppend(m, path)
    \/ \E m \in Msgs : RemoteExpunge(m)
    \/ \E m \in Msgs, path \in Paths(remote) : RemoteMove(m, path)
    \/ \E m \in Msgs : RemoteFlag(m)
    \/ \E path \in Paths(remote) : RemoteUidValidity(path)
    \/ Tick

NextBg == BgSyncNow \/ BgSyncFolder \/ BgFinish \/ BgWake \/ Environment

SpecBg == InitBg /\ [][NextBg]_vars

----------------------------------------------------------------------------
\* Properties of the background cycle.

\* syncNow has returned and the next pass has not begun
CycleDone == hist.cycle >= 1 /\ bg.pc \in {"syncNow", "sleep"}

\* C1 (two-phase survival): a message the background worker unlinked during
\* cycle N and was handed again, in some folder B, during cycle N or N+1 is, after the
\* delete pass that ends cycle N+1, still stored, bound to B, with a real UID.
TwoPhaseSurvival ==
    CycleDone =>
        \A i \in Msgs :
            (hist.unl[i] # 0 /\ hist.unl[i] = hist.cycle - 1 /\ hist.obs[i] # 0)
                => /\ i \in DOMAIN store.msgs
                   /\ store.msgs[i].folderId = hist.obsFolder[i]
                   /\ ~Unlinked(store, i)

\* the case of C1 in which the message shows up in another folder only in the
\* cycle after the one that unlinked it
SurvivedByLateObservation ==
    /\ CycleDone
    /\ \E i \in Msgs :
         /\ hist.unl[i] # 0 /\ hist.unl[i] = hist.cycle - 1 /\ hist.obs[i] = hist.cycle
         /\ hist.obsFolder[i] # hist.unlFolder[i]
         /\ i \in DOMAIN store.msgs /\ store.msgs[i].folderId = hist.obsFolder[i] /\ ~Unlinked(store, i)

\* C2 (two-phase deletion): a message the background worker unlinked during
\* cycle N and was not handed again is still stored after the delete pass that
\* ends cycle N, and is gone after the delete pass that ends cycle N+1.
TwoPhaseDeletion ==
    CycleDone =>
        \A i \in Msgs :
            /\ (hist.unl[i] # 0 /\ hist.unl[i] = hist.cycle /\ hist.obs[i] = 0) => i \in DOMAIN store.msgs
            /\ (hist.unl[i] # 0 /\ hist.unl[i] = hist.cycle - 1 /\ hist.obs[i] = 0) => i \notin DOMAIN store.msgs

\* a message unlinked in the cycle before the last, never seen again, and gone
DeletedOneCycleLater ==
    /\ CycleDone
    /\ \E i \in Msgs : hist.unl[i] # 0 /\ hist.unl[i] = hist.cycle - 1 /\ hist.obs[i] = 0 /\ i \notin DOMAIN store.msgs

\* C3 (idempotence): when the mailbox did not change since before the previous
\* pass began, and that pass reported no more work, a pass hands no delta to
\* the observer.
SecondPassSilent ==
    (CycleDone /\ hist.cycle >= 2 /\ hist.lastChange < hist.cycle - 1 /\ ~hist.returned[hist.cycle - 1])
        => hist.kinds = {}

----------------------------------------------------------------------------
\* The MailProcessor called by the two workers.  A worker loads the Message it
\* is about to update first (findAllMap before the loop of
\* syncFolderChangesViaCondstore), and calls updateMessage with that object
\* later; the other worker runs in between.

Timestamps == 1..MaxTs

FolderAt(path) == [id |-> idForFolder(path), path |-> path, role |-> "", localStatus |-> EmptyMap]

Seen(m, unread) == IMAPMessage([m |-> m, uid |-> 1, unread |-> unread])

InitUpsert ==
    /\ store = EmptyStore
    /\ remote = OneInInbox
    /\ caps = [condstore |-> TRUE, qresync |-> FALSE, gmail |-> FALSE]
    /\ headers = PlainHeaders
    /\ now = StartTime
    /\ bg = NewWorker
    /\ fg = NewWorker
    /\ main = [pc |-> "listen"]
    /\ hist = NoHistory

Worker(w) == IF w = "bg" THEN bg ELSE fg

WorkerBecomes(w, v) == IF w = "bg" THEN bg' = v /\ fg' = fg ELSE fg' = v /\ bg' = bg

\* the errors the database answers an insert with, besides those the rows
\* stored give rise to: none, or one of these
DbErrors == {0, SQLITE_CONSTRAINT, SQLITE_BUSY}

\* processor->insertFallbackToUpdateMessage(msg, folder), the database
\* answering with dbError
CallInsertFallback(w, path, unread, ts) ==
    /\ Worker(w).local = <<>>
    /\ \E dbError \in DbErrors :
         \E res \in {IF dbError = 0
                     THEN insertFallbackToUpdateMessage(AtRest(store), Seen(1, unread), FolderAt(path), ts, FirstThread(store, Seen(1, unread)))
                     ELSE FallbackToUpdate(insertMessageFailing(AtRest(store), dbError), Seen(1, unread), FolderAt(path), ts)} :
            /\ store' = res.S
            /\ hist' = [hist EXCEPT !.call = [op |-> "insert", id |-> 1, ts |-> ts, path |-> path, unread |-> unread,
                                              code |-> res.code, thrown |-> res.thrown]]
    /\ UNCHANGED <<remote, caps, headers, now, bg, fg, main>>

\* local = store->findAllMap<Message>(query, "id")
CallFind(w) ==
    /\ Worker(w).local = <<>>
    /\ 1 \in DOMAIN store.msgs
    /\ WorkerBecomes(w, [Worker(w) EXCEPT !.local = <<store.msgs[1]>>])
    /\ hist' = [hist EXCEPT !.call = [op |-> "find", id |-> 1, ts |-> 0]]
    /\ UNCHANGED <<store, remote, caps, headers, now, main>>

\* processor->updateMessage(local[id].get(), msg, folder)
CallUpdate(w, path, unread, ts) ==
    /\ Worker(w).local # <<>>
    /\ store' = updateMessage(AtRest(store), Worker(w).local[1], Seen(1, unread), FolderAt(path), ts)
    /\ WorkerBecomes(w, [Worker(w) EXCEPT !.local = <<>>])
    /\ hist' = [hist EXCEPT !.call = [op |-> "update", id |-> 1, ts |-> ts]]
    /\ UNCHANGED <<remote, caps, headers, now, main>>

NextUpsert ==
    \E w \in {"bg", "fg"} :
        \/ \E path \in {"INBOX", "Archive"}, unread \in BOOLEAN, ts \in Timestamps : CallInsertFallback(w, path, unread, ts)
        \/ CallFind(w)
        \/ \E path \in {"INBOX", "Archive"}, unread \in BOOLEAN, ts \in Timestamps : CallUpdate(w, path, unread, ts)

SpecUpsert == InitUpsert /\ [][NextUpsert]_vars

\* C4 (monotonic sync): over any sequence of insert and update calls by the two
\* workers the stored syncedAt of a message never decreases, and an
\* updateMessage call whose timestamp is older than the stored syncedAt leaves
\* the message as it was.
MonotonicSync ==
    [][\A i \in DOMAIN store.msgs \cap DOMAIN store'.msgs :
          /\ store'.msgs[i].syncedAt >= store.msgs[i].syncedAt
          /\ (hist'.call.op = "update" /\ hist'.call.id = i /\ hist'.call.ts < store.msgs[i].syncedAt)
                => store'.msgs[i] = store.msgs[i]]_vars

\* C20 (insert-or-update fallback): insertFallbackToUpdateMessage throws
\* exactly when the insert failed with an error that is no constraint
\* failure, or with a constraint failure while no message of that id is
\* stored; when it throws, the messages and threads stored are as before;
\* after a constraint failure it did not rethrow, the message stored under
\* the id has been put through updateMessage.
InsertOrUpdate ==
    [][hist'.call.op = "insert" =>
          /\ hist'.call.thrown = (\/ hist'.call.code \notin {0, SQLITE_CONSTRAINT}
                                  \/ hist'.call.code = SQLITE_CONSTRAINT /\ hist'.call.id \notin DOMAIN store.msgs)
          /\ hist'.call.thrown => (store'.msgs = store.msgs /\ store'.threads = store.threads)
          /\ (hist'.call.code = SQLITE_CONSTRAINT /\ ~hist'.call.thrown)
                => /\ <<hist'.call.id, idForFolder(hist'.call.path)>> \in store'.seen
                   /\ hist'.call.ts >= store.msgs[hist'.call.id].syncedAt
                         => /\ store'.msgs[hist'.call.id].folderId = idForFolder(hist'.call.path)
                            /\ store'.msgs[hist'.call.id].unread = hist'.call.unread
                   /\ hist'.call.ts < store.msgs[hist'.call.id].syncedAt
                         => store'.msgs[hist'.call.id] = store.msgs[hist'.call.id]]_vars

\* the database was busy while the message was stored, the call threw, and
\* the message is as it was
BusyInsertPropagated ==
    /\ hist.call.op = "insert" /\ hist.call.code = SQLITE_BUSY /\ hist.call.thrown
    /\ hist.call.id \in DOMAIN store.msgs
    /\ store.msgs[hist.call.id].unread # hist.call.unread

----------------------------------------------------------------------------
\* The messages of a conversation arriving in any order.

Conversation == 1..ThreadMsgs

\* the References a message may carry: the Message-Ids of earlier messages
RefLists(m) == {<<>>} \cup {<<a>> : a \in 1..(m - 1)} \cup {<<a, b>> : <<a, b>> \in {p \in (1..(m - 1)) \X (1..(m - 1)) : p[1] < p[2]}}

\* IMAP accounts: no Gmail thread id; references vary
ImapConversations ==
    {h \in [Conversation -> [messageID : Conversation, references : UNION {RefLists(m) : m \in Conversation},
                             gmailThreadID : {0}, autoGenerated : {FALSE}, date : {RecentDate}]] :
        \A m \in Conversation : h[m].messageID = m /\ h[m].references \in RefLists(m)}

\* Gmail accounts: every message carries X-GM-THRID
GmailConversations ==
    {h \in [Conversation -> [messageID : Conversation, references : {<<>>},
                             gmailThreadID : {7, 8}, autoGenerated : {FALSE}, date : {RecentDate}]] :
        \A m \in Conversation : h[m].messageID = m}

InitThread ==
    /\ store = EmptyStore
    /\ remote = OneInInbox
    /\ caps = [condstore |-> FALSE, qresync |-> FALSE, gmail |-> FALSE]
    /\ headers \in ImapConversations \cup GmailConversations
    /\ now = StartTime
    /\ bg = NewWorker
    /\ fg = NewWorker
    /\ main = [pc |-> "listen"]
    /\ hist = NoHistory

\* The message is seen for the first time.  The thread lookup is a LIMIT 1
\* query without an ORDER BY: any matching row may come back.
Arrive(m) ==
    /\ m \notin DOMAIN store.msgs
    /\ \E thread \in ThreadChoices(store, IMAPMessage([m |-> m, uid |-> m, unread |-> TRUE])) :
         store' = insertFallbackToUpdateMessage(AtRest(store), IMAPMessage([m |-> m, uid |-> m, unread |-> TRUE]),
                                                FolderAt("INBOX"), now, thread).S
    /\ UNCHANGED <<remote, caps, headers, now, bg, fg, main, hist>>

NextThread == \E m \in Conversation : Arrive(m)

SpecThread == InitThread /\ [][NextThread]_vars

\* two messages belong together when they carry the same Gmail thread id or
\* their reference chains (own Message-Id and References) share a Message-Id
Chain(m) == {headers[m].messageID} \cup SeqRange(headers[m].references)

Linked(a, b) ==
    \/ headers[a].gmailThreadID # 0 /\ headers[a].gmailThreadID = headers[b].gmailThreadID
    \/ Chain(a) \cap Chain(b) # {}

RECURSIVE ReachableFrom(_)
ReachableFrom(ms) ==
    LET more == ms \cup {b \in Conversation : \E a \in ms : Linked(a, b)}
    IN IF more = ms THEN ms ELSE ReachableFrom(more)

\* C5 (thread convergence): once all messages of the conversation have
\* arrived, in whatever order, messages that share a Gmail thread id or are
\* connected through shared Message-Ids are in the same thread.
ThreadConvergence ==
    (DOMAIN store.msgs = Conversation) =>
        \A a \in Conversation : \A b \in ReachableFrom({a}) : store.msgs[a].threadId = store.msgs[b].threadId

----------------------------------------------------------------------------
\* TaskProcessor.  The handler either accepts or rejects the task in its
\* local phase; the remote phase succeeds, fails retryably, or fails for good.

\* Task::Task(constructorName, accountId, data): status "local"
Task(id) == [id |-> id, status |-> "local", error |-> FALSE, should_cancel |-> FALSE]

performLocal(S, task, rejects) ==
    LET T0 == beginTransaction(S)
        done == IF rejects THEN [task EXCEPT !.error = TRUE, !.status = "complete"]
                ELSE [task EXCEPT !.status = "remote"]
    IN commitTransaction(save(T0, "tasks", "Task", task.id, done, TRUE))

Outcomes == {"ok", "retryable", "fatal"}

performRemote(S, task, outcome) ==
    LET done == IF task.should_cancel \/ outcome = "ok" THEN [task EXCEPT !.status = "complete"]
                ELSE [task EXCEPT !.error = TRUE, !.status = "complete"]
    IN IF outcome = "retryable" /\ ~task.should_cancel THEN S
       ELSE save(S, "tasks", "Task", task.id, done, TRUE)

----------------------------------------------------------------------------
\* The listener on the main thread: one packet per step.

\* session.interruptIdle(): the primitive is edge-triggered.  It ends an IDLE
\* that has been set up and does nothing when none is.
interruptIdle(W) == IF W.pc = "idling" THEN [W EXCEPT !.pc = "woken"] ELSE W

\* fgWorker->idleInterrupt()
idleInterrupt(W) == interruptIdle([W EXCEPT !.idleShouldReloop = TRUE])

\* fgWorker->idleQueueBodiesToSync(ids)
idleQueueBodiesToSync(W, ids) == [W EXCEPT !.idleShouldReloop = TRUE, !.idleFetchBodyIDs = @ \o ids]

\* a listener that runs the local phase on a task already stored
TaskQueuedAgain(id, rejects) ==
    /\ Running /\ main.pc = "listen"
    /\ store' = performLocal(AtRest(store), IF id \in DOMAIN store.tasks THEN store.tasks[id] ELSE Task(id), rejects)
    /\ fg' = idleInterrupt(fg)
    /\ UNCHANGED <<remote, caps, headers, now, bg, main, hist>>

\* {type: "task-queued"}: the UI made the task, with an id of its own
TaskQueued(id, rejects) ==
    /\ Running /\ main.pc = "listen"
    /\ id \notin DOMAIN store.tasks
    /\ store' = performLocal(AtRest(store), Task(id), rejects)
    /\ fg' = idleInterrupt(fg)
    /\ UNCHANGED <<remote, caps, headers, now, bg, main, hist>>

\* {type: "need-bodies"}
NeedBodies(ids) ==
    /\ Running /\ main.pc = "listen"
    /\ hist.requests < MaxRequests
    /\ fg' = idleInterrupt(idleQueueBodiesToSync(fg, ids))
    /\ hist' = [hist EXCEPT !.requests = @ + 1]
    /\ UNCHANGED <<store, remote, caps, headers, now, bg, main>>

----------------------------------------------------------------------------
\* The foreground thread: idleCycle.  Each action is one stretch of the loop
\* up to and including the check of idleShouldReloop that follows it.

\* a check that finds the flag set and goes on with the tasks
ReloopFromTasks(W, onward) ==
    IF W.idleShouldReloop THEN [W EXCEPT !.idleShouldReloop = FALSE, !.pc = "tasks"] ELSE [W EXCEPT !.pc = onward]

\* where the loop goes after a check of the flag
Reloop(W, onward) ==
    IF W.idleShouldReloop THEN [W EXCEPT !.idleShouldReloop = FALSE, !.pc = "drain"] ELSE [W EXCEPT !.pc = onward]

\* the queued body requests, last first
RECURSIVE DrainBodies(_, _, _, _)
DrainBodies(S, R, ids, err) ==
    IF ids = <<>> THEN S
    ELSE LET id == ids[Len(ids)]
             rest == SubSeq(ids, 1, Len(ids) - 1)
         IN IF id \in DOMAIN S.msgs
            THEN DrainBodies(syncMessageBody(S, R, S.msgs[id].folderId[2], S.msgs[id], err), R, rest, err)
            ELSE DrainBodies(S, R, rest, err)

FgDrain ==
    /\ Running /\ fg.pc = "drain"
    /\ \E err \in BOOLEAN : store' = DrainBodies(AtRest(store), remote, fg.idleFetchBodyIDs, err)
    /\ fg' = Reloop([fg EXCEPT !.idleFetchBodyIDs = <<>>], "tasks")
    /\ UNCHANGED <<remote, caps, headers, now, bg, main, hist>>

\* performRemote on each task of the list, each with an outcome of its own
RECURSIVE RunTasks(_, _, _)
RunTasks(S, tasks, outcomes) ==
    IF tasks = <<>> THEN S
    ELSE RunTasks(performRemote(S, Head(tasks), outcomes[Head(tasks).id]), Tail(tasks), outcomes)

\* every row of Task
TasksOfAnyStatus(S) == DOMAIN S.tasks

\* the rows of Task with status = "remote"
TasksReady(S) == {id \in DOMAIN S.tasks : S.tasks[id].status = "remote"}

FgTasks ==
    /\ Running /\ fg.pc = "tasks"
    /\ LET ids == Ascending(TasksReady(store))
           tasks == [k \in 1..Len(ids) |-> store.tasks[ids[k]]]
       IN \E outcomes \in [TasksReady(store) -> Outcomes] :
            /\ store' = RunTasks(AtRest(store), tasks, outcomes)
            /\ hist' = [hist EXCEPT !.performed = [k \in 1..Len(tasks) |-> [task |-> tasks[k], outcome |-> outcomes[tasks[k].id]]],
                                    !.retried = @ \cup {id \in TasksReady(store) : outcomes[id] = "retryable"}]
    /\ fg' = Reloop(fg, "inbox")
    /\ UNCHANGED <<remote, caps, headers, now, bg, main>>

\* the folders a query for the role may return
WithRole(S, role) == {f \in DOMAIN S.folders : S.folders[f].role = role}

FgInbox ==
    /\ Running /\ fg.pc = "inbox"
    /\ IF WithRole(store, "inbox") # {}
       THEN \E f \in WithRole(store, "inbox") : fg' = Reloop([fg EXCEPT !.inbox = store.folders[f]], "connect")
       ELSE IF WithRole(store, "all") # {}
       THEN \E f \in WithRole(store, "all") : fg' = Reloop([fg EXCEPT !.inbox = store.folders[f]], "connect")
       ELSE fg' = [fg EXCEPT !.pc = "returned"]
    /\ UNCHANGED <<store, remote, caps, headers, now, bg, main, hist>>

FgConnect ==
    /\ Running /\ fg.pc = "connect"
    /\ \E err \in BOOLEAN : fg' = IF err THEN [fg EXCEPT !.pc = "dead"] ELSE Reloop(fg, "sync")
    /\ UNCHANGED <<store, remote, caps, headers, now, bg, main, hist>>

\* idleCycle from syncFoldersAndLabels to the save of the inbox, last
\* statement first

\* store->save(inbox.get()); bodies is what syncMessageBodies left
InboxSaved(bodies, inbox) ==
    [S |-> save(bodies.S, "folders", "Folder", inbox.id, inbox, TRUE), inbox |-> inbox, end |-> "idle"]

\* syncMessageBodies; chg is what the sync of the changes left
InboxBodiesSynced(chg, R, t, fail) ==
    IF chg.thrown THEN [S |-> chg.S, inbox |-> chg.folder, end |-> "dead"]
    ELSE InboxSaved(syncMessageBodies(chg.S, R, chg.folder, t, fail = "body"), chg.folder)

\* the inbox is looked up again and its changes synced; listed is what
\* syncFoldersAndLabels left
InboxSynced(listed, R, W, t, fail) ==
    LET inbox == listed.S.folders[W.inbox.id]
        remoteStatus == folderStatus(R, inbox.path)
    IN IF listed.thrown THEN [S |-> listed.S, inbox |-> W.inbox, end |-> "dead"]
       ELSE IF W.inbox.id \notin DOMAIN listed.S.folders THEN [S |-> listed.S, inbox |-> W.inbox, end |-> "returned"]
       ELSE InboxBodiesSynced(IF caps.condstore
                              THEN syncFolderChangesViaCondstore(listed.S, R, inbox, remoteStatus, W.unlinkPhase, t, fail = "sync", fail = "shallow")
                              ELSE syncFolderChangesViaShallowScan(listed.S, R, inbox, remoteStatus, W.unlinkPhase, t, fail = "shallow"),
                              R, t, fail)

\* the background worker is inside syncNow, between the folder list and the
\* phase flip
PassUnderWay == bg.pc \in {"folder", "finish"}

\* (hist.fgUnl: for each message, the background pass that was under way when
\* the foreground worker last unlinked it)
idleCycleSync(S, R, W, t, fail) == InboxSynced(syncFoldersAndLabels(S, R, fail = "list"), R, W, t, fail)

FgSync ==
    /\ Running /\ fg.pc = "sync"
    /\ \E fail \in {"none", "list", "shallow", "sync", "body"} :
         \E res \in {idleCycleSync(AtRest(store), remote, fg, now, fail)} :
            /\ store' = res.S
            /\ fg' = IF res.end = "idle" THEN Reloop([fg EXCEPT !.inbox = res.inbox], "idle")
                     ELSE [fg EXCEPT !.pc = res.end]
            /\ hist' = [hist EXCEPT !.fgUnl = [i \in Msgs |-> IF i \in NewlyUnlinked(store, res.S) /\ PassUnderWay
                                                              THEN hist.cycle ELSE @[i]]]
    /\ UNCHANGED <<remote, caps, headers, now, bg, main>>

\* session.setupIdle(): from here on an interrupt ends the IDLE.  Without the
\* IDLE capability the loop goes round at once.
FgSetupIdle ==
    /\ Running /\ fg.pc = "idle"
    /\ \E canIdle \in BOOLEAN : fg' = [fg EXCEPT !.pc = IF canIdle THEN "idling" ELSE "drain"]
    /\ UNCHANGED <<store, remote, caps, headers, now, bg, main, hist>>

\* session.idle returns: the server reported a change, or the call timed out
FgIdle ==
    /\ Running /\ fg.pc = "idling"
    /\ fg' = [fg EXCEPT !.pc = "drain"]
    /\ UNCHANGED <<store, remote, caps, headers, now, bg, main, hist>>

\* session.idle returns: another thread called session.interruptIdle
FgIdleInterrupted ==
    /\ Running /\ fg.pc = "woken"
    /\ fg' = [fg EXCEPT !.pc = "drain"]
    /\ UNCHANGED <<store, remote, caps, headers, now, bg, main, hist>>

Foreground == FgDrain \/ FgTasks \/ FgInbox \/ FgConnect \/ FgSync \/ FgSetupIdle \/ FgIdle \/ FgIdleInterrupted

\* the foreground thread while no listener interrupts it
ForegroundAlone == FgDrain \/ FgTasks \/ FgInbox \/ FgConnect \/ FgSync \/ FgSetupIdle \/ FgIdle

Background == BgSyncNow \/ BgSyncFolder \/ BgFinish \/ BgWake


Listener ==
    \/ \E id \in 1..MaxTasks, rejects \in BOOLEAN : TaskQueued(id, rejects)
    \/ \E m \in Msgs : NeedBodies(<<m>>)

\* the process with a UI sending packets, on a mailbox nobody else changes
InitTask ==
    /\ store = EmptyStore
    /\ remote = OneInInbox
    /\ caps = [condstore |-> TRUE, qresync |-> TRUE, gmail |-> FALSE]
    /\ headers = PlainHeaders
    /\ now = StartTime
    /\ bg = [NewWorker EXCEPT !.pc = "syncNow"]
    /\ fg = NewWorker
    /\ main = [pc |-> "listen"]
    /\ hist = [NoHistory EXCEPT !.limit = WorkerCycles]

NextTask == Background \/ Foreground \/ Listener

SpecTask == InitTask /\ [][NextTask]_vars

\* a mailbox holding a read and an unread message in the inbox
TwoInInbox ==
    [OneInInbox EXCEPT !.msgs = @ \cup {[m |-> 2, path |-> "INBOX", uid |-> 2, unread |-> TRUE, modseq |-> 1]},
                       !.uidNext["INBOX"] = 3]

\* both workers running while the server expunges messages and assigns a new
\* UIDVALIDITY
InitBoth ==
    /\ store = EmptyStore
    /\ remote = TwoInInbox
    /\ caps \in {c \in Capabilities : ~c.gmail}
    /\ headers = PlainHeaders
    /\ now = StartTime
    /\ bg = [NewWorker EXCEPT !.pc = "syncNow"]
    /\ fg = NewWorker
    /\ main = [pc |-> "listen"]
    /\ hist = [NoHistory EXCEPT !.limit = WorkerCycles]

NextBoth ==
    \/ Background
    \/ ForegroundAlone
    \/ \E m \in Msgs : RemoteExpunge(m)
    \/ \E path \in Paths(remote) : RemoteUidValidity(path)

SpecBoth == InitBoth /\ [][NextBoth]_vars

\* C6 (uniqueness of the remote binding): no two stored messages with a real
\* UID share folder and UID.
UniqueBinding ==
    \A i, j \in DOMAIN store.msgs :
        (i # j /\ ~Unlinked(store, i) /\ ~Unlinked(store, j))
            => ~(store.msgs[i].folderId = store.msgs[j].folderId /\ store.msgs[i].remoteUID = store.msgs[j].remoteUID)

----------------------------------------------------------------------------
\* The background pass over accounts with any three folders, listed by the
\* server in any order.

FolderPool ==
    {[path |-> "INBOX", role |-> "inbox", noSelect |-> FALSE], [path |-> "Sent", role |-> "sent", noSelect |-> FALSE],
     [path |-> "Drafts", role |-> "drafts", noSelect |-> FALSE], [path |-> "All", role |-> "all", noSelect |-> FALSE],
     [path |-> "Archive", role |-> "archive", noSelect |-> FALSE], [path |-> "Trash", role |-> "trash", noSelect |-> FALSE],
     [path |-> "Spam", role |-> "spam", noSelect |-> FALSE], [path |-> "Work", role |-> "", noSelect |-> FALSE],
     [path |-> "Home", role |-> "", noSelect |-> FALSE]}

EmptyMailbox(folders) ==
    [folders |-> folders,
     uidValidity |-> [p \in {f.path : f \in FolderPool} |-> 1],
     uidNext |-> [p \in {f.path : f \in FolderPool} |-> 1],
     modSeq |-> [p \in {f.path : f \in FolderPool} |-> 1],
     msgs |-> {}, vanished |-> {}]

Listings == {l \in [1..OrderFolders -> FolderPool] : \A a, b \in 1..OrderFolders : a # b => l[a] # l[b]}

InitOrder ==
    /\ store = EmptyStore
    /\ \E l \in Listings : remote = EmptyMailbox(l)
    /\ caps \in {c \in Capabilities : ~c.condstore}
    /\ headers = PlainHeaders
    /\ now = StartTime
    /\ bg = [NewWorker EXCEPT !.pc = "syncNow"]
    /\ fg = NewWorker
    /\ main = [pc |-> "listen"]
    /\ hist = NoHistory

SpecOrder == InitOrder /\ [][Background]_vars

\* C7 (folder ordering): in every pass the folders are processed in the order
\* inbox, sent, drafts, all, archive, trash, spam, folders of any other role
\* last.
FolderOrdering ==
    \A k \in 1..(Len(hist.order) - 1) : Rank(hist.order[k]) <= Rank(hist.order[k + 1])

\* a completed pass over three folders that the server listed in another
\* order, the last of them without a role
ReorderedPass ==
    /\ CycleDone /\ Len(hist.order) = 3
    /\ hist.order[1] = "inbox" /\ hist.order[2] = "trash" /\ hist.order[3] = ""
    /\ roleForFolder(remote.folders[3]) = "trash" /\ roleForFolder(remote.folders[2]) = ""

\* C8 (delta durability): every delta handed to the observer comes after the
\* commit of the transaction that made it, and a transaction that was rolled
\* back hands over none.
DeltaDurability ==
    \A k \in 1..Len(store.log) :
        store.log[k].ev = "emit" =>
            /\ \E j \in 1..(k - 1) : store.log[j].ev = "commit" /\ store.log[j].tx = store.log[k].tx
            /\ \A j \in 1..Len(store.log) : ~(store.log[j].ev = "rollback" /\ store.log[j].tx = store.log[k].tx)

\* the failed insert of insertFallbackToUpdateMessage rolled back, and the
\* update that followed committed and emitted
RolledBackThenUpdated ==
    \E j, k \in 1..Len(store.log) :
        /\ j < k
        /\ store.log[j].ev = "rollback"
        /\ store.log[k].ev = "emit" /\ store.log[k].kind = "Message" /\ store.log[k].tx > store.log[j].tx

\* C9 (task state machine): a stored task only moves local -> remote ->
\* complete; a new task is stored as remote, or as complete with its error;
\* a complete task never changes.
StatusRank(status) == IF status = "local" THEN 1 ELSE IF status = "remote" THEN 2 ELSE 3

RemotePhase ==
    \A k \in 1..Len(hist.performed) :
        LET p == hist.performed[k]
        IN /\ p.task.status = "remote"
           /\ p.outcome = "retryable" => store.tasks[p.task.id] = p.task
           /\ p.outcome = "fatal" => store.tasks[p.task.id].status = "complete" /\ store.tasks[p.task.id].error
           /\ p.outcome = "ok" => store.tasks[p.task.id].status = "complete" /\ ~store.tasks[p.task.id].error

\* a task that failed retryably and was handed to performRemote again
RetriedTask ==
    \E k \in 1..Len(hist.performed) :
        /\ hist.performed[k].outcome = "fatal"
        /\ hist.performed[k].task.id \in hist.retried

----------------------------------------------------------------------------
\* The process under a scheduler that lets the foreground thread take every
\* step it can take by itself.  Nothing makes the server send a notification
\* or the IDLE time out, so FgIdle is left without a fairness condition.

NextWake == Background \/ Foreground \/ \E id \in 1..MaxTasks, rejects \in BOOLEAN : TaskQueued(id, rejects)

\* Weak fairness of FgSync.  The step is enabled exactly when the running
\* thread is at its first statement, and it always leaves that statement, so
\* WF_vars(FgSync) says that the thread is not at that statement for ever.
FairFgSync == []<>~(Running /\ fg.pc = "sync")

SpecWake ==
    /\ InitTask /\ [][NextWake]_vars
    /\ WF_vars(FgDrain) /\ WF_vars(FgTasks) /\ WF_vars(FgInbox) /\ WF_vars(FgConnect)
    /\ FairFgSync /\ WF_vars(FgSetupIdle) /\ WF_vars(FgIdleInterrupted)

\* the foreground thread is inside idleCycle
FgActive == Running /\ fg.pc \notin {"off", "dead", "returned"}

\* C11 (interrupt wake-up): once the listener has run performLocal on a task,
\* leaving it stored as remote, and called idleInterrupt, a foreground worker
\* that keeps running hands the task to performRemote, with no notification
\* from the server and no IDLE timeout.
InterruptWakeUp ==
    \A id \in 1..MaxTasks :
        (FgActive /\ id \in DOMAIN store.tasks /\ store.tasks[id].status = "remote")
            ~> (~FgActive \/ \E k \in 1..Len(hist.performed) : hist.performed[k].task.id = id)

----------------------------------------------------------------------------
\* Properties of runBackgroundSyncWorker.

BackgroundPacing ==
    [][/\ (bg.pc = "finish" /\ bg'.pc # "finish")
            => (bg'.pc = IF TRUE \in hist.more THEN "syncNow" ELSE "sleep") /\ now' = now
       /\ (bg.pc = "sleep" /\ bg'.pc # "sleep")
            => bg'.pc = "syncNow" /\ now' - now >= 120]_vars

\* a pass that reported more work in one folder only and was followed at
\* once by a pass that reported none, after which the thread slept
SleptAfterSecondPass ==
    /\ hist.cycle = 2 /\ Len(hist.returned) = 2 /\ hist.returned[1] /\ ~hist.returned[2]
    /\ bg.pc = "syncNow" /\ now >= StartTime + 120

\* C14 (background error recovery): a pass in which the fetch of the folder
\* list or of a folder's status failed leaves the background thread alive,
\* asleep or in a later pass.
BackgroundRecovers ==
    hist.failed \in {"list", "status"} => bg.pc # "dead"

\* C15 (UIDValidity change): once a pass has found a folder's stored
\* uidvalidity to differ from the server's, the background worker keeps
\* running and every stored message of that folder is unlinked.
UidValidityRecovery ==
    hist.invalid # <<>>
        => /\ bg.pc # "dead"
           /\ \A i \in DOMAIN store.msgs : store.msgs[i].folderId = hist.invalid => Unlinked(store, i)

\* hist.aborted: the pass in which syncNow threw last, and the number of
\* passes that had returned by then

\* a step of the background worker inside syncNow, before its end
InsidePass == bg.pc \in {"syncNow", "folder"} /\ bg' # bg

\* the pass that threw is still the last one begun
PassAborted == hist.aborted.cycle # 0 /\ hist.aborted.cycle = hist.cycle

\* a step leaves the phase, the stored messages and the passes returned alone
NothingDeleted ==
    /\ bg'.unlinkPhase = bg.unlinkPhase
    /\ DOMAIN store.msgs \subseteq DOMAIN store'.msgs
    /\ hist'.returned = hist.returned

\* the messages unlinked in the pass that threw are stored as long as at most
\* one pass has returned since
AbortedUnlinkKept ==
    (hist.aborted.cycle # 0 /\ Len(hist.returned) <= hist.aborted.done + 1)
        => \A i \in Msgs : hist.unl[i] = hist.aborted.cycle => i \in DOMAIN store.msgs

----------------------------------------------------------------------------
\* The first background pass over a new account whose only folder is INBOX,
\* holding UIDs 1..n, on a server with CONDSTORE.  The messages are older
\* than a month, so no body is fetched.

\* the mailbox of the bootstrap example
BootstrapSize == 2500

\* the largest of the small mailboxes
SmallMailbox == 16

MailboxSizes == 0..SmallMailbox \cup {BootstrapSize}

InboxOnly(n) ==
    [folders |-> << [path |-> "INBOX", role |-> "inbox", noSelect |-> FALSE] >>,
     uidValidity |-> [p \in {"INBOX"} |-> 1],
     uidNext |-> [p \in {"INBOX"} |-> n + 1],
     modSeq |-> [p \in {"INBOX"} |-> 1],
     msgs |-> {[m |-> u, path |-> "INBOX", uid |-> u, unread |-> FALSE, modseq |-> 1] : u \in 1..n},
     vanished |-> {}]

InitBootstrap ==
    /\ store = EmptyStore
    /\ \E n \in MailboxSizes : remote = InboxOnly(n)
    /\ caps \in {c \in Capabilities : c.condstore /\ ~c.gmail}
    /\ headers = [m \in 1..BootstrapSize |-> [messageID |-> m, references |-> <<>>, gmailThreadID |-> 0,
                                              autoGenerated |-> FALSE, date |-> OldDate]]
    /\ now = StartTime
    /\ bg = [NewWorker EXCEPT !.pc = "syncNow"]
    /\ fg = NewWorker
    /\ main = [pc |-> "listen"]
    /\ hist = [NoHistory EXCEPT !.limit = 1, !.faults = {}]

SpecBootstrap == InitBootstrap /\ [][Background]_vars

\* C16 (bootstrap): with INBOX holding UIDs 1..2500 and an empty store, the
\* first pass leaves 2500 messages and 2500 threads stored, fullScanHead at
\* 1, and returns no more work.
BootstrapInOnePass ==
    (CycleDone /\ hist.cycle = 1 /\ Cardinality(remote.msgs) = BootstrapSize)
        => /\ Cardinality(DOMAIN store.msgs) = BootstrapSize
           /\ Cardinality(DOMAIN store.threads) = BootstrapSize
           /\ store.folders[idForFolder("INBOX")].localStatus["fullScanHead"] = 1
           /\ ~hist.returned[1]

----------------------------------------------------------------------------
\* The process from its command line: main, runTestAuth, and the listener's
\* watch on stdin.

Arguments == [bad : BOOLEAN, help : BOOLEAN, mode : {"migrate", "test", "sync"}, orphan : BOOLEAN, valid : BOOLEAN]

\* the outcomes of the requests runTestAuth makes
ImapOutcomes == {"ok", "connect", "fetchAllFolders"}
SmtpOutcomes == {"ok", "connect", "loginIfNeeded"}

\* runTestAuth.  err is assigned by every call it is handed to: mailcore2's
\* connect and loginIfNeeded store ErrorNone in it when they succeed.
runTestAuth(folders, imap, smtp) ==
    LET listed == IF \E i \in 1..Len(folders) : roleForFolder(folders[i]) \in {"all", "inbox"}
                  THEN "ErrorNone" ELSE "ErrorInvalidAccount"
        err == IF imap = "connect" THEN "ErrorConnection"
               ELSE IF imap = "fetchAllFolders" THEN "ErrorFetch"
               ELSE IF smtp = "connect" THEN "ErrorConnection"
               ELSE IF smtp = "loginIfNeeded" THEN "ErrorAuthentication"
               ELSE "ErrorNone"
    IN [error |-> IF err = "ErrorNone" THEN "null" ELSE err,
        error_service |-> IF imap = "ok" THEN "smtp" ELSE "imap",
        listed |-> IF imap = "ok" THEN listed ELSE "",
        code |-> IF err = "ErrorNone" THEN 0 ELSE 1]

Returned(M, resp) == [M EXCEPT !.pc = "exited", !.code = resp.code, !.error = resp.error, !.listed = resp.listed]

NoResponse(code) == [error |-> "", listed |-> "", code |-> code]

InitMain ==
    /\ store = EmptyStore
    /\ caps = [condstore |-> TRUE, qresync |-> FALSE, gmail |-> FALSE]
    /\ headers = PlainHeaders
    /\ now = StartTime
    /\ bg = NewWorker
    /\ fg = NewWorker
    /\ hist = NoHistory
    /\ \E args \in Arguments :
         /\ main = [pc |-> "main", args |-> args, code |-> 0, error |-> "", listed |-> "", cin |-> TRUE, closedAt |-> 0, lostCINAt |-> 0]
         /\ IF args.mode = "test" THEN \E l \in Listings : remote = EmptyMailbox(l) ELSE remote = OneInInbox

\* main() up to its return or to its call of runListenOnMainThread
Main ==
    /\ main.pc = "main"
    /\ \E migrated \in BOOLEAN, imap \in ImapOutcomes, smtp \in SmtpOutcomes :
         /\ main' = IF main.args.bad THEN Returned(main, NoResponse(1))
                    ELSE IF main.args.help THEN Returned(main, NoResponse(0))
                    ELSE IF main.args.mode = "migrate"
                    THEN Returned(main, [NoResponse(IF migrated THEN 0 ELSE 1) EXCEPT !.error = IF migrated THEN "null" ELSE "std::exception"])
                    ELSE IF ~main.args.valid
                    THEN Returned(main, [NoResponse(1) EXCEPT !.error = "Account is missing required fields."])
                    ELSE IF main.args.mode = "test" THEN Returned(main, runTestAuth(remote.folders, imap, smtp))
                    ELSE IF main.args.orphan THEN Returned(main, NoResponse(0))
                    ELSE [main EXCEPT !.pc = "listen"]
         /\ bg' = IF ~main.args.bad /\ ~main.args.help /\ main.args.valid /\ main.args.mode = "sync"
                  THEN [bg EXCEPT !.pc = "syncNow"] ELSE bg
    /\ UNCHANGED <<store, remote, caps, headers, now, fg, hist>>

\* the parent closes stdin, or a debugger interrupts it
CinBreaks ==
    /\ Running /\ main.pc = "listen" /\ main.cin
    /\ main' = [main EXCEPT !.cin = FALSE, !.closedAt = now]
    /\ UNCHANGED <<store, remote, caps, headers, now, bg, fg, hist>>

\* the interruption is over
CinHeals ==
    /\ Running /\ main.pc = "listen" /\ ~main.cin
    /\ main' = [main EXCEPT !.cin = TRUE, !.closedAt = 0]
    /\ UNCHANGED <<store, remote, caps, headers, now, bg, fg, hist>>

Elapse(seconds) ==
    /\ Running /\ main.pc = "listen" /\ now + seconds <= StartTime + MaxElapsed
    /\ now' = now + seconds
    /\ UNCHANGED <<store, remote, caps, headers, bg, fg, main, hist>>

\* runListenOnMainThread after waitForJSON has returned: the check of cin at
\* time t
CinChecked(M, t) ==
    IF M.cin THEN [M EXCEPT !.lostCINAt = 0]
    ELSE [M EXCEPT !.lostCINAt = IF @ = 0 THEN t ELSE @,
                   !.pc = IF t - (IF M.lostCINAt = 0 THEN t ELSE M.lostCINAt) > OrphanSeconds THEN "terminated" ELSE @]

\* One round of the loop of runListenOnMainThread.  waitForJSON blocks while
\* stdin is open and holds no line; it returns a line that was read, throws
\* invalid_argument for a line that is not JSON, and returns an empty packet
\* at once when stdin cannot be read.  The packets here are of no type the
\* loop acts on.
Listen(packet) ==
    /\ Running /\ main.pc = "listen"
    /\ (packet = "none") = ~main.cin
    /\ main' = IF packet = "invalid" THEN main ELSE CinChecked(main, now)
    /\ UNCHANGED <<store, remote, caps, headers, now, bg, fg, hist>>

NextMain ==
    \/ Main
    \/ CinBreaks
    \/ CinHeals
    \/ \E seconds \in {1, 10} : Elapse(seconds)
    \/ \E packet \in {"none", "other", "invalid"} : Listen(packet)

SpecMain == InitMain /\ [][NextMain]_vars

\* C17 (orphan shutdown): the listener terminates the process only when
\* stdin is broken and has been broken without a break for 30 seconds.
OrphanShutdown ==
    main.pc = "terminated" => (~main.cin /\ now - main.closedAt >= OrphanSeconds)

\* C18 (orphan mode): started in sync mode with --orphan, the process is
\* running once its background worker has been started.
OrphanMode ==
    (main.pc # "main" /\ main.args.orphan /\ bg.pc # "off") => Running

\* C19 (test mode): test mode ends with exit code 0 and error null only if
\* the folder list holds a folder of role all or inbox; when it holds none,
\* test mode ends with exit code 1 and an error.
TestModeFolders ==
    (main.pc = "exited" /\ main.listed # "")
        => /\ (main.code = 0 /\ main.error = "null") => main.listed = "ErrorNone"
           /\ main.listed = "ErrorInvalidAccount" => (main.code = 1 /\ main.error # "null")

----------------------------------------------------------------------------
\* The two-phase scheme, step by step.

\* the tombstone of a phase
Tombstone(phase) == UINT32_MAX - phase

\* The MailProcessor's two routines of the scheme, called on stores of many
\* messages.  pattern says which messages of the store are unlinked, and in
\* which phase.
ProcessorSizes == {0, 2, chunkSize - 1, chunkSize, chunkSize + 1, 2 * chunkSize}

Patterns == {"real", "first", "second", "mixed"}

RemoteUIDIn(pattern, i) ==
    IF pattern = "first" \/ (pattern = "mixed" /\ i % 3 = 0) THEN UINT32_MAX - 1
    ELSE IF pattern = "second" \/ (pattern = "mixed" /\ i % 3 = 1) THEN UINT32_MAX - 2
    ELSE i

Stored(n, pattern) ==
    [EmptyStore EXCEPT
        !.msgs = [i \in 1..n |->
                    [Message([m |-> i, uid |-> i, unread |-> FALSE, starred |-> FALSE, draft |-> FALSE, labels |-> {}, date |-> OldDate],
                             FolderAt("INBOX"), 1)
                        EXCEPT !.remoteUID = RemoteUIDIn(pattern, i), !.threadId = i]],
        !.threads = [i \in 1..n |-> [gThrId |-> 0]]]

InitProcessor ==
    /\ \E n \in ProcessorSizes, pattern \in Patterns : store = Stored(n, pattern)
    /\ remote = OneInInbox
    /\ caps = [condstore |-> TRUE, qresync |-> FALSE, gmail |-> FALSE]
    /\ headers = PlainHeaders
    /\ now = StartTime
    /\ bg = NewWorker
    /\ fg = NewWorker
    /\ main = [pc |-> "listen"]
    /\ hist = NoHistory

\* the row sets the queries of the callers select: a folder's messages, those
\* of a UID range, those of a list of UIDs
Queries(S) == {DOMAIN S.msgs, {i \in DOMAIN S.msgs : i <= 3}, {i \in DOMAIN S.msgs : i % 2 = 0}}

\* processor->unlinkMessagesMatchingQuery(q, unlinkPhase)
CallUnlink(matched, phase) ==
    /\ store' = unlinkMessagesMatchingQuery(AtRest(store), matched, phase)
    /\ hist' = [hist EXCEPT !.call = [op |-> "unlink", matched |-> matched, phase |-> phase]]
    /\ UNCHANGED <<remote, caps, headers, now, bg, fg, main>>

\* processor->deleteMessagesStillUnlinkedFromPhase(unlinkPhase)
CallDelete(phase) ==
    /\ store' = deleteMessagesStillUnlinkedFromPhase(AtRest(store), phase)
    /\ hist' = [hist EXCEPT !.call = [op |-> "delete", matched |-> {}, phase |-> phase]]
    /\ UNCHANGED <<remote, caps, headers, now, bg, fg, main>>

NextProcessor ==
    \/ \E matched \in Queries(store), phase \in {1, 2} : CallUnlink(matched, phase)
    \/ \E phase \in {1, 2} : CallDelete(phase)

SpecProcessor == InitProcessor /\ [][NextProcessor]_vars

\* C22 (unlink is silent and in place): unlinkMessagesMatchingQuery keeps
\* every row; a matched message that was bound to a real UID differs from
\* what it was in remoteUID alone, which is UINT32_MAX minus the phase; every
\* other row is as it was; no delta is handed to the observer.
UnlinkSilentInPlace ==
    [][hist'.call.op = "unlink" =>
          /\ DOMAIN store'.msgs = DOMAIN store.msgs
          /\ \A i \in DOMAIN store.msgs :
                store'.msgs[i] = IF i \in hist'.call.matched /\ ~Unlinked(store, i)
                                 THEN [store.msgs[i] EXCEPT !.remoteUID = Tombstone(hist'.call.phase)]
                                 ELSE store.msgs[i]
          /\ store'.threads = store.threads
          /\ \A k \in 1..Len(store'.log) : store'.log[k].ev # "emit"]_vars

\* an unlink in phase 2 took some messages and left one unlinked in phase 1
\* as it was
UnlinkedBesideOlderTombstone ==
    /\ hist.call.op = "unlink" /\ hist.call.phase = 2
    /\ \E i, j \in hist.call.matched :
          /\ store.msgs[i].remoteUID = Tombstone(2) /\ RemoteUIDIn("mixed", i) = i
          /\ store.msgs[j].remoteUID = Tombstone(1)

\* the messages a transaction of the log removed
RemovedIn(S, tx) == {k \in 1..Len(S.log) : S.log[k].ev = "emit" /\ S.log[k].tx = tx /\ S.log[k].kind = "Message" /\ S.log[k].op = "unpersist"}

\* C23 (delete pass): after deleteMessagesStillUnlinkedFromPhase(p) no
\* message has the tombstone of p; the messages gone are those that had it,
\* the others are as they were; no transaction removed more than 100
\* messages; the last transaction of the pass found fewer than 100.
DeletePass ==
    [][hist'.call.op = "delete" =>
          /\ DOMAIN store'.msgs = {i \in DOMAIN store.msgs : store.msgs[i].remoteUID # Tombstone(hist'.call.phase)}
          /\ \A i \in DOMAIN store'.msgs : store'.msgs[i] = store.msgs[i]
          /\ \A tx \in 1..store'.tx : Cardinality(RemovedIn(store', tx)) <= chunkSize
          /\ Cardinality(RemovedIn(store', store'.tx)) < chunkSize
          /\ store'.tx = Cardinality({i \in DOMAIN store.msgs : store.msgs[i].remoteUID = Tombstone(hist'.call.phase)}) \div chunkSize + 1]_vars

\* a pass over exactly 200 matching messages: three transactions, the last
\* of them empty
DeletedTwoFullChunks ==
    /\ hist.call.op = "delete"
    /\ store.tx = 3 /\ Cardinality(RemovedIn(store, 1)) = chunkSize /\ Cardinality(RemovedIn(store, 2)) = chunkSize
    /\ RemovedIn(store, 3) = {}
    /\ store.msgs = EmptyMap

\* C21 (unlink phase flip): the unlinkPhase of a worker is 1 or 2; the end of
\* a syncNow pass, and no other step, changes the background worker's, to the
\* other value, and leaves no message with the tombstone of the new value; a
\* message unlinked while a pass is going through its folders gets the
\* tombstone of the value the pass began with, which is not the one deleted
\* at the end of that pass.
UnlinkPhaseFlip ==
    [][/\ bg'.unlinkPhase \in {1, 2} /\ fg'.unlinkPhase \in {1, 2}
       /\ IF bg.pc = "finish" /\ bg'.pc # "finish"
          THEN /\ bg'.unlinkPhase # bg.unlinkPhase
               /\ \A i \in DOMAIN store'.msgs : store'.msgs[i].remoteUID # Tombstone(bg'.unlinkPhase)
               /\ \A i \in DOMAIN store.msgs \ DOMAIN store'.msgs : store.msgs[i].remoteUID = Tombstone(bg'.unlinkPhase)
          ELSE bg'.unlinkPhase = bg.unlinkPhase
       /\ bg.pc = "folder" => \A i \in NewlyUnlinked(store, store') : store'.msgs[i].remoteUID = Tombstone(bg.unlinkPhase)]_vars

----------------------------------------------------------------------------
\* The deep scan on its own: syncFolderFullScanIncremental called on the inbox
\* as syncNow calls it, the Folder saved after the call, while the clock runs
\* and other clients change the mailbox between the calls.

\* the waits and mailbox changes of one behaviour
MaxScanEvents == 1

\* an inbox holding the UIDs uids
ScanMailbox(uids, uidNext) ==
    [folders |-> << [path |-> "INBOX", role |-> "inbox", noSelect |-> FALSE] >>,
     uidValidity |-> [p \in {"INBOX"} |-> 1],
     uidNext |-> [p \in {"INBOX"} |-> uidNext],
     modSeq |-> [p \in {"INBOX"} |-> 1],
     msgs |-> {[m |-> u, path |-> "INBOX", uid |-> u, unread |-> FALSE, modseq |-> 1] : u \in uids},
     vanished |-> {}]

\* the store before the first deep scan of the inbox: without messages, or
\* with those of the mailbox R, which arrived after a scan of the empty
\* folder and were synced as changes
Unscanned(R, synced) ==
    [EmptyStore EXCEPT
        !.folders = Put(EmptyMap, idForFolder("INBOX"), [FolderAt("INBOX") EXCEPT !.role = "inbox"]),
        !.msgs = [u \in {r.uid : r \in {x \in R.msgs : synced}} |->
                    [Message([m |-> u, uid |-> u, unread |-> FALSE, starred |-> FALSE, draft |-> FALSE, labels |-> {}, date |-> OldDate],
                             FolderAt("INBOX"), StartTime)
                        EXCEPT !.threadId = u]],
        !.threads = [u \in {r.uid : r \in {x \in R.msgs : synced}} |-> [gThrId |-> 0]]]

\* an empty inbox; one of three messages; a sparse one (fewer messages than
\* a chunk, far below uidNext); one of a fresh chunk's size whose upper half
\* is within a chunk of uidNext; one of a full chunk of 1000 whose UIDs begin
\* at 501, already stored
ScanInputs ==
    {Unscanned(R, FALSE) :> R : R \in {ScanMailbox({}, 1), ScanMailbox(1..3, 4), ScanMailbox({5, 700, 1499}, 1500),
                                       ScanMailbox(201..400, 501)}}
        \cup {Unscanned(R, TRUE) :> R : R \in {ScanMailbox(1..3, 4), ScanMailbox(501..1500, 1501)}}

InitScan ==
    /\ \E input \in ScanInputs : \E S \in DOMAIN input : store = S /\ remote = input[S]
    /\ caps \in {c \in Capabilities : c.condstore /\ ~c.gmail}
    /\ headers = [m \in 1..1500 |-> [messageID |-> m, references |-> <<>>, gmailThreadID |-> 0,
                                     autoGenerated |-> FALSE, date |-> OldDate]]
    /\ now = StartTime
    /\ bg = NewWorker
    /\ fg = NewWorker
    /\ main = [pc |-> "listen"]
    /\ hist = NoHistory

\* the Folder object of the inbox as syncNow has it before the call: loaded
\* from the store, localStatus filled in when it was empty
ScanFolder(S, R) ==
    LET folder == S.folders[idForFolder("INBOX")]
    IN IF DOMAIN folder.localStatus = {}
       THEN [folder EXCEPT !.localStatus = Put(Put(@, "highestmodseq", folderStatus(R, "INBOX").highestModSeqValue),
                                               "uidvalidity", folderStatus(R, "INBOX").uidValidity)]
       ELSE folder

\* syncFolderFullScanIncremental(*folder, remoteStatus), then
\* store->save(folder.get())
CallFullScan ==
    \E res \in {syncFolderFullScanIncremental(AtRest(store), remote, ScanFolder(store, remote), folderStatus(remote, "INBOX"),
                                              bg.unlinkPhase, now, FALSE)} :
        /\ store' = save(res.S, "folders", "Folder", res.folder.id, res.folder, TRUE)
        /\ hist' = [hist EXCEPT !.call = [op |-> "scan", result |-> res.result, at |-> now,
                                          before |-> ScanFolder(store, remote).localStatus],
                                 !.cycle = @ + 1]
        /\ hist.cycle <= hist.limit
        /\ UNCHANGED <<remote, caps, headers, now, bg, fg, main>>

\* ten minutes pass, or a second more
ScanWait ==
    /\ hist.ticks + hist.ops < MaxScanEvents
    /\ \E seconds \in {TEN_MINUTES, TEN_MINUTES + 1} : now' = now + seconds
    /\ hist' = [hist EXCEPT !.ticks = @ + 1, !.call = [op |-> "wait", result |-> FALSE, at |-> now, before |-> EmptyMap]]
    /\ UNCHANGED <<store, remote, caps, headers, bg, fg, main>>

\* the scan's cursor as the store keeps it, 0 before the first step
StoredHead(S) ==
    IF "fullScanHead" \in DOMAIN S.folders[idForFolder("INBOX")].localStatus
    THEN S.folders[idForFolder("INBOX")].localStatus["fullScanHead"] ELSE 0

\* another client expunges, or marks unread, the message at the cursor or
\* the one below it
ScanExpunge ==
    /\ hist.ticks + hist.ops < MaxScanEvents
    /\ \E r \in remote.msgs : r.uid \in {StoredHead(store) - 1, StoredHead(store)} /\ Changed(Expunged(remote, r))

ScanFlag ==
    /\ hist.ticks + hist.ops < MaxScanEvents
    /\ \E r \in remote.msgs :
          /\ r.uid \in {StoredHead(store) - 1, StoredHead(store)}
          /\ Changed([remote EXCEPT !.msgs = (@ \ {r}) \cup {[r EXCEPT !.unread = ~@, !.modseq = remote.modSeq[r.path] + 1]},
                                    !.modSeq[r.path] = @ + 1])

NextScan == CallFullScan \/ ScanWait \/ ScanExpunge \/ ScanFlag

SpecScan == InitScan /\ [][NextScan]_vars

\* What the spec says of a deep-scan step made at time t on a folder with
\* local status ls, the server reporting status: whether it begins a fresh
\* scan, the head and the chunk size it works with, and the lower bound of
\* the range it scans.
FreshScan(ls, t) ==
    \/ "fullScanHead" \notin DOMAIN ls
    \/ ~caps.qresync /\ t - ls["fullScanTime"] > TEN_MINUTES

HeadOf(ls, t, status) == IF FreshScan(ls, t) THEN status.uidNext ELSE ls["fullScanHead"]

ChunkOf(ls, t) == IF FreshScan(ls, t) THEN 200 ELSE 1000

LowerBound(head, chunk, status) ==
    IF status.messageCount < chunk THEN 1
    ELSE IF head - chunk > 1 THEN head - chunk ELSE 1

InboxStatus(S) == S.folders[idForFolder("INBOX")].localStatus

\* the step is a call of the deep scan
Scans == hist'.cycle = hist.cycle + 1

ScanStepOver(extra) ==
    Scans =>
        LET ls == hist'.call.before
            status == folderStatus(remote, "INBOX")
            head == HeadOf(ls, now, status)
            lo == LowerBound(head, ChunkOf(ls, now), status)
            InRange(u) == lo <= u /\ u <= head - 1 + extra
            Touched(i) == i \notin DOMAIN store.msgs \/ store'.msgs[i] # store.msgs[i]
        IN IF head > 1
           THEN /\ hist'.call.result
                /\ StoredHead(store') = lo /\ lo < head /\ lo >= 1
                /\ InboxStatus(store')["fullScanTime"] = now
                /\ \A r \in remote.msgs :
                      InRange(r.uid) => /\ r.m \in DOMAIN store'.msgs
                                        /\ store'.msgs[r.m].remoteUID = r.uid
                                        /\ store'.msgs[r.m].unread = r.unread
                /\ \A i \in DOMAIN store.msgs :
                      (InRange(store.msgs[i].remoteUID) /\ \A r \in remote.msgs : r.uid # store.msgs[i].remoteUID)
                          => Unlinked(store', i)
                /\ DOMAIN store.msgs \subseteq DOMAIN store'.msgs
                /\ \A i \in DOMAIN store'.msgs :
                      Touched(i) => InRange(IF i \in DOMAIN store.msgs THEN store.msgs[i].remoteUID ELSE store'.msgs[i].remoteUID)
           ELSE /\ ~hist'.call.result
                /\ store'.msgs = store.msgs
                /\ StoredHead(store') = StoredHead(store)

\* C25 (deep-scan step and completion): a step with head > 1 returns true,
\* stores the lower bound max(head - chunk, 1), or 1 when the folder holds
\* fewer messages than the chunk, as the new fullScanHead, below head and at
\* least 1, records the time, reconciles the messages with a UID in
\* [lower bound, head) and touches no other; a step with head = 1 returns
\* false and touches nothing.
DeepScanStep == [][ScanStepOver(0)]_vars

\* the same with the range [lower bound, head], both ends included
DeepScanStepToHead == [][ScanStepOver(1)]_vars

----------------------------------------------------------------------------
\* syncFolderUIDRange on its own: called on either folder with a range of
\* UIDs, by a worker in either phase, while other clients change the mailbox
\* between the calls.

\* the ranges of the calls
RangeStarts == 1..2
RangeLengths == {0, 1, 3}

InitRange ==
    /\ store = EmptyStore
    /\ remote = TwoInInbox
    /\ caps = [condstore |-> TRUE, qresync |-> FALSE, gmail |-> FALSE]
    /\ headers = PlainHeaders
    /\ now = StartTime
    /\ bg = NewWorker
    /\ fg = NewWorker
    /\ main = [pc |-> "listen"]
    /\ hist = NoHistory

\* syncFolderUIDRange(folder, RangeMake(location, length)); err: the fetch fails
CallRange(path, location, length, phase, err) ==
    /\ hist.cycle < hist.limit
    /\ store' = syncFolderUIDRange(AtRest(store), remote, FolderAt(path), location, length, phase, now, err).S
    /\ hist' = [hist EXCEPT !.cycle = @ + 1,
                            !.call = [op |-> "range", path |-> path, location |-> location, length |-> length,
                                      phase |-> phase, err |-> err]]
    /\ UNCHANGED <<remote, caps, headers, now, bg, fg, main>>

NextRange ==
    \/ \E path \in Paths(remote), location \in RangeStarts, length \in RangeLengths, phase \in {1, 2}, err \in BOOLEAN :
          CallRange(path, location, length, phase, err)
    \/ \E m \in Msgs, path \in Paths(remote) : RemoteAppend(m, path)
    \/ \E m \in Msgs : RemoteExpunge(m)
    \/ \E m \in Msgs, path \in Paths(remote) : RemoteMove(m, path)
    \/ \E m \in Msgs : RemoteFlag(m)
    \/ \E path \in Paths(remote) : RemoteUidValidity(path)

SpecRange == InitRange /\ [][NextRange]_vars

\* Of a call of syncFolderUIDRange whose fetch succeeded: the messages the
\* server returned, the stored messages of the folder with a UID of the range,
\* and the UIDs among theirs that the server did not return.
ReturnedBy(call) == fetchMessagesByUID(remote, call.path, call.location, call.length)

LocalIn(S, call) ==
    {i \in DOMAIN S.msgs : /\ S.msgs[i].folderId = idForFolder(call.path)
                           /\ call.location <= S.msgs[i].remoteUID
                           /\ S.msgs[i].remoteUID <= call.location + call.length}

NotReturned(S, call) == {S.msgs[i].remoteUID : i \in LocalIn(S, call)} \ {r.uid : r \in ReturnedBy(call)}

\* the call handed the processor the message r
Handed(S, call, r) == <<r.m, idForFolder(call.path)>> \in S.seen

\* the step is a call of syncFolderUIDRange whose fetch succeeded
Ranged == hist'.cycle = hist.cycle + 1 /\ ~hist'.call.err

\* the parts of C26 that do not say which messages are unlinked: no message
\* that ends the call in the folder with a returned UID is unlinked by it;
\* every returned message whose UID the folder lacked, or had with other
\* attributes, is handed to insertFallbackToUpdateMessage, and no other is
ReturnedReconciled ==
    /\ \A i \in NewlyUnlinked(store, store') : store.msgs[i].remoteUID \notin {r.uid : r \in ReturnedBy(hist'.call)}
    /\ \A r \in ReturnedBy(hist'.call) :
          Handed(store', hist'.call, r)
              <=> \/ \A i \in LocalIn(store, hist'.call) : store.msgs[i].remoteUID # r.uid
                  \/ \E i \in LocalIn(store, hist'.call) : /\ store.msgs[i].remoteUID = r.uid
                                                           /\ store.msgs[i].unread # r.unread

\* C26 as stated (UID-range reconciliation): the messages a call unlinks are
\* exactly those that were in the folder with a UID of the range that the
\* server did not return.
RangeReconciliation ==
    [][Ranged =>
          /\ NewlyUnlinked(store, store') = {i \in LocalIn(store, hist'.call) : store.msgs[i].remoteUID \in NotReturned(store, hist'.call)}
          /\ ReturnedReconciled]_vars

\* C26 as amended: ... exactly those that were in the folder with a UID of
\* the range that the server did not return, and that the call was not
\* handed under a UID the server did return.
RangeReconciliationOfRemaining ==
    [][Ranged =>
          /\ NewlyUnlinked(store, store')
                = {i \in LocalIn(store, hist'.call) :
                      /\ store.msgs[i].remoteUID \in NotReturned(store, hist'.call)
                      /\ \A r \in ReturnedBy(hist'.call) : r.m = i => ~Handed(store', hist'.call, r)}
          /\ ReturnedReconciled]_vars

\* a message whose UID had vanished from the folder was returned under a new
\* UID by the same fetch: the call re-bound it and did not unlink it
ReboundNotUnlinked ==
    /\ hist.call.op = "range" /\ ~hist.call.err
    /\ \E i \in DOMAIN store.msgs, v \in remote.vanished :
          /\ v.path = hist.call.path
          /\ hist.call.location <= v.uid /\ v.uid < store.msgs[i].remoteUID
          /\ store.msgs[i].remoteUID <= hist.call.location + hist.call.length
          /\ store.msgs[i].folderId = idForFolder(hist.call.path)
          /\ <<i, idForFolder(hist.call.path)>> \in store.seen
          /\ \A r \in remote.msgs : r.path = hist.call.path => r.uid # v.uid

----------------------------------------------------------------------------
\* The CONDSTORE sync on its own: syncFolderChangesViaCondstore called on an
\* inbox that has been synced once, the Folder saved after the call as both
\* callers do, the cycle ended as syncNow ends it, while other clients change
\* the mailbox.

\* mailbox changes of one behaviour, and the server's modseq at the start
MaxCondstoreOps == 3
FirstModseq == 100

\* the ids of the messages: three in the inbox at the start, one to arrive
CondstoreMsgs == 1..4

CondstoreMailbox == [ScanMailbox(1..3, 4) EXCEPT !.modSeq = [p \in {"INBOX"} |-> FirstModseq]]

InitCondstore ==
    /\ remote = CondstoreMailbox
    /\ caps \in {c \in Capabilities : c.condstore /\ ~c.gmail}
    /\ headers = [m \in CondstoreMsgs |-> [messageID |-> m, references |-> <<>>, gmailThreadID |-> 0,
                                           autoGenerated |-> FALSE, date |-> OldDate]]
    /\ now = StartTime
    /\ store = AtRest(syncNowFolder(Unscanned(remote, FALSE), remote, [FolderAt("INBOX") EXCEPT !.role = "inbox"],
                                    1, now, "none").S)
    /\ bg = NewWorker
    /\ fg = NewWorker
    /\ main = [pc |-> "listen"]
    /\ hist = NoHistory @@ [vanished |-> {}]

\* (hist.vanished: the messages unlinked for a vanished UID so far)
\* syncFolderChangesViaCondstore(*folder, remoteStatus), then
\* store->save(folder.get()); syncErr, fetchErr: the SYNC request, the fetch
\* of the shallow scan fails
CallCondstore(syncErr, fetchErr) ==
    /\ hist.cycle < hist.limit
    /\ \E res \in {syncFolderChangesViaCondstore(AtRest(store), remote, store.folders[idForFolder("INBOX")],
                                                 folderStatus(remote, "INBOX"), bg.unlinkPhase, now, syncErr, fetchErr)} :
          /\ store' = save(res.S, "folders", "Folder", res.folder.id, res.folder, TRUE)
          /\ hist' = [hist EXCEPT !.cycle = @ + 1,
                                  !.call = [op |-> "condstore", syncErr |-> syncErr, fetchErr |-> fetchErr, shallow |-> res.shallow],
                                  !.vanished = IF res.shallow THEN @ ELSE @ \cup NewlyUnlinked(store, res.S)]
    /\ UNCHANGED <<remote, caps, headers, now, bg, fg, main>>

\* the end of syncNow: the phase flips and the delete pass runs
CondstoreCycleEnd ==
    /\ hist.cycle > 0 /\ hist.call.op # "end"
    /\ \E unlinkPhase \in {IF bg.unlinkPhase = 1 THEN 2 ELSE 1} :
          /\ store' = deleteMessagesStillUnlinkedFromPhase(AtRest(store), unlinkPhase)
          /\ bg' = [bg EXCEPT !.unlinkPhase = unlinkPhase]
    /\ hist' = [hist EXCEPT !.call = [op |-> "end", syncErr |-> FALSE, fetchErr |-> FALSE, shallow |-> FALSE]]
    /\ UNCHANGED <<remote, caps, headers, now, fg, main>>

CondstoreChanged(R) ==
    /\ hist.ops < MaxCondstoreOps
    /\ remote' = R
    /\ hist' = [hist EXCEPT !.ops = @ + 1, !.call = [op |-> "change", syncErr |-> FALSE, fetchErr |-> FALSE, shallow |-> FALSE]]
    /\ UNCHANGED <<store, caps, headers, now, bg, fg, main>>

\* another client changes the \Seen flag of a message; the server's modseq
\* moves on by one or, with changes elsewhere, by more
CondstoreFlag ==
    \E r \in remote.msgs, bump \in 1..2 :
        CondstoreChanged([remote EXCEPT !.msgs = (@ \ {r}) \cup {[r EXCEPT !.unread = ~@, !.modseq = remote.modSeq[r.path] + bump]},
                                         !.modSeq[r.path] = @ + bump])

CondstoreExpunge == \E r \in remote.msgs : CondstoreChanged(Expunged(remote, r))

\* a message arrives, or one that was expunged is appended again
CondstoreAppend ==
    \E m \in CondstoreMsgs : (\A r \in remote.msgs : r.m # m) /\ CondstoreChanged(Appended(remote, m, "INBOX", TRUE))

NextCondstore ==
    \/ \E syncErr \in BOOLEAN, fetchErr \in BOOLEAN : CallCondstore(syncErr, fetchErr)
    \/ CondstoreCycleEnd
    \/ CondstoreFlag
    \/ CondstoreExpunge
    \/ CondstoreAppend

SpecCondstore == InitCondstore /\ [][NextCondstore]_vars

\* the step is a call of syncFolderChangesViaCondstore
Synced == hist'.cycle = hist.cycle + 1

\* the deltas of one kind and operation the last handler handed the observer
Emitted(S, kind, op) == {k \in 1..Len(S.log) : S.log[k].ev = "emit" /\ S.log[k].kind = kind /\ S.log[k].op = op}

\* the call wrote no message and no thread
NothingWritten ==
    /\ store'.msgs = store.msgs /\ store'.threads = store.threads
    /\ \A k \in 1..Len(store'.log) : store'.log[k].ev = "emit" => store'.log[k].kind = "Folder"

\* every message of the server is stored under its UID, and every stored
\* message is on the server: flags apart, nothing is out of date
OnlyFlagsDiffer ==
    /\ \A r \in remote.msgs : r.m \in DOMAIN store.msgs /\ store.msgs[r.m].remoteUID = r.uid
    /\ \A i \in DOMAIN store.msgs : \E r \in remote.msgs : r.m = i

\* C27 (CONDSTORE cursor): a call that finds the stored highestmodseq equal
\* to the server's writes nothing and leaves the folder's status as it is;
\* so does a call that follows a successful call with no change of the
\* mailbox in between; any other call whose SYNC request succeeds stores the
\* server's uidnext and highestmodseq; and when only flags have changed it
\* updates each message whose flag differs once, inserts none and unlinks none.
CondstoreCursor ==
    [][Synced =>
          LET ls == InboxStatus(store)
              status == folderStatus(remote, "INBOX")
              changed == {r \in modifiedOrAddedMessages(remote, "INBOX", ls["highestmodseq"]) : store.msgs[r.m].unread # r.unread}
          IN /\ ls["highestmodseq"] = status.highestModSeqValue
                   => NothingWritten /\ InboxStatus(store') = ls /\ ~hist'.call.shallow
             /\ (hist.call.op = "condstore" /\ ~hist.call.syncErr)
                   => NothingWritten /\ InboxStatus(store') = ls
             /\ (ls["highestmodseq"] # status.highestModSeqValue /\ ~hist'.call.syncErr)
                   => /\ InboxStatus(store')["highestmodseq"] = status.highestModSeqValue
                      /\ InboxStatus(store')["uidnext"] = status.uidNext
                      /\ OnlyFlagsDiffer
                            => /\ Cardinality(Emitted(store', "Message", "persist")) = Cardinality(changed)
                               /\ \A r \in changed : store'.msgs[r.m].unread = r.unread
                               /\ DOMAIN store'.msgs = DOMAIN store.msgs
                               /\ NewlyUnlinked(store, store') = {}
                               /\ Emitted(store', "Message", "unpersist") = {}]_vars

\* the server's modseq went from 100 to 105 while three messages changed
\* their flag; one call updated the three and stored 105
ThreeFlagsSynced ==
    /\ hist.call.op = "condstore"
    /\ remote.modSeq["INBOX"] = FirstModseq + 5
    /\ InboxStatus(store)["highestmodseq"] = FirstModseq + 5
    /\ Cardinality(Emitted(store, "Message", "persist")) = 3
    /\ \A r \in remote.msgs : r.unread /\ store.msgs[r.m].unread

\* the UIDs the SYNC result of a call in this state carries as vanished
VanishedNow ==
    IF caps.qresync THEN vanishedMessages(remote, "INBOX", InboxStatus(store)["highestmodseq"]) ELSE {}

\* the call in this state gets as far as the deletions
ReachesDeletions == InboxStatus(store)["highestmodseq"] # folderStatus(remote, "INBOX").highestModSeqValue

\* the stored messages of the inbox under a vanished UID that the same result
\* does not report under a new UID (those are updated first)
VanishedLocally ==
    {i \in DOMAIN store.msgs : /\ store.msgs[i].folderId = idForFolder("INBOX")
                               /\ store.msgs[i].remoteUID \in VanishedNow
                               /\ ~\E r \in modifiedOrAddedMessages(remote, "INBOX", InboxStatus(store)["highestmodseq"]) : r.m = i}

\* the step ends a cycle
CycleEnds == bg'.unlinkPhase # bg.unlinkPhase

\* C28 (CONDSTORE deletion detection): a call whose SYNC result carries
\* vanished UIDs unlinks exactly the stored messages of the folder under those
\* UIDs, with the tombstone of the current phase, and runs no shallow scan; a
\* call whose result carries none runs the shallow scan; and the delete pass
\* at the end of a cycle removes an unlinked message only if it still carries
\* the tombstone of the phase being deleted, so one observed again stays.
VanishedUnlinked ==
    [][/\ (Synced /\ ReachesDeletions /\ ~hist'.call.syncErr)
            => IF VanishedNow # {}
               THEN /\ NewlyUnlinked(store, store') = VanishedLocally
                    /\ \A i \in VanishedLocally : store'.msgs[i].remoteUID = Tombstone(bg.unlinkPhase)
                    /\ ~hist'.call.shallow
               ELSE hist'.call.shallow
       /\ CycleEnds
            => /\ \A i \in DOMAIN store.msgs \ DOMAIN store'.msgs : store.msgs[i].remoteUID = Tombstone(bg'.unlinkPhase)
               /\ \A i \in DOMAIN store.msgs : store.msgs[i].remoteUID = Tombstone(bg'.unlinkPhase) => i \notin DOMAIN store'.msgs
               /\ \A i \in DOMAIN store.msgs \cap DOMAIN store'.msgs : store'.msgs[i] = store.msgs[i]]_vars

\* a message unlinked for a vanished UID was appended and observed again, and
\* is still stored after the cycles have deleted both phases
VanishedSeenAgainKept ==
    /\ hist.call.op = "end"
    /\ hist.cycle >= 2
    /\ \E i \in hist.vanished : /\ i \in DOMAIN store.msgs
                                /\ ~Unlinked(store, i)
                                /\ \E r \in remote.msgs : r.m = i /\ r.uid = store.msgs[i].remoteUID /\ r.uid >= 4

-----------------------------------------------------------------------------
\* syncMessageBodies called on folders of every role with fewer, as many and
\* more messages without a body than one call fetches.

\* the calls of one behaviour
MaxBodyCalls == 3

BodySizes == {0, 1, BodyLimit, BodyLimit + 1, 2 * BodyLimit + 1}

BodyRoles == {"inbox", "all", "spam", "trash"}

\* the stored messages are all of the last month, all older, or all older drafts
BodyAges == {"recent", "old", "drafts"}

\* the folder the bodies are fetched for: n messages, none with a body
BodyStore(n, role, age) ==
    [EmptyStore EXCEPT
        !.folders = Put(EmptyMap, idForFolder("INBOX"), [FolderAt("INBOX") EXCEPT !.role = role]),
        !.msgs = [u \in 1..n |->
                    [Message([m |-> u, uid |-> u, unread |-> FALSE, starred |-> FALSE, draft |-> (age = "drafts"), labels |-> {},
                              date |-> IF age = "recent" THEN RecentDate ELSE OldDate],
                             FolderAt("INBOX"), StartTime)
                        EXCEPT !.threadId = u]],
        !.threads = [u \in 1..n |-> [gThrId |-> 0]]]

InitBodies ==
    /\ \E n \in BodySizes, role \in BodyRoles, age \in BodyAges :
          /\ store = BodyStore(n, role, age)
          /\ remote = ScanMailbox(1..n, n + 1)
    /\ caps \in {c \in Capabilities : c.condstore /\ ~c.gmail /\ ~c.qresync}
    /\ headers = PlainHeaders
    /\ now = StartTime
    /\ bg = NewWorker
    /\ fg = NewWorker
    /\ main = [pc |-> "listen"]
    /\ hist = NoHistory

\* bool bodiesInProgress = syncMessageBodies(*folder, remoteStatus); err: the
\* fetch requests of the call fail
CallBodies(err) ==
    /\ hist.cycle < MaxBodyCalls
    /\ \E res \in {syncMessageBodies(AtRest(store), remote, store.folders[idForFolder("INBOX")], now, err)} :
          /\ store' = res.S
          /\ hist' = [hist EXCEPT !.cycle = @ + 1, !.call = [op |-> "bodies", result |-> res.result, err |-> err]]
    /\ UNCHANGED <<remote, caps, headers, now, bg, fg, main>>

\* another client expunges the message with the lowest UID
BodiesExpunge ==
    /\ hist.ops = 0 /\ remote.msgs # {}
    /\ remote' = [remote EXCEPT !.msgs = {r \in @ : r.uid # 1}]
    /\ hist' = [hist EXCEPT !.ops = @ + 1]
    /\ UNCHANGED <<store, caps, headers, now, bg, fg, main>>

NextBodies ==
    \/ \E err \in BOOLEAN : CallBodies(err)
    \/ BodiesExpunge

SpecBodies == InitBodies /\ [][NextBodies]_vars

\* the step is a call of syncMessageBodies
Backfills == hist'.cycle = hist.cycle + 1

\* the bodies the call stored
Fetched == store'.bodies \ store.bodies

\* the messages the query of the call selects from: of the folder, of the
\* last month or drafts, without a body
Wanting(S) ==
    {i \in DOMAIN S.msgs : /\ S.msgs[i].folderId = idForFolder("INBOX")
                           /\ (S.msgs[i].date > now - OneMonth \/ S.msgs[i].draft)
                           /\ i \notin S.bodies}

\* what a call does whatever it returns: at most ten bodies, each of a message
\* that wanted one, and nothing at all for spam and trash
BackfillBounded ==
    /\ Cardinality(Fetched) <= BodyLimit
    /\ Fetched \subseteq Wanting(store)
    /\ store.bodies \subseteq store'.bodies
    /\ store.folders[idForFolder("INBOX")].role \in {"spam", "trash"}
          => store' = AtRest(store) /\ ~hist'.call.result
    /\ (~hist'.call.err /\ store.folders[idForFolder("INBOX")].role \notin {"spam", "trash"}
          /\ \A i \in Wanting(store) : \E r \in remote.msgs : r.uid = store.msgs[i].remoteUID)
          => Cardinality(Fetched) = IF Cardinality(Wanting(store)) < BodyLimit THEN Cardinality(Wanting(store)) ELSE BodyLimit

-----------------------------------------------------------------------------
\* idleCycle and its check points (SpecTask)

\* the stretches of the loop that end with a check of idleShouldReloop
CheckStages == {"drain", "tasks", "inbox", "connect", "sync"}

\* the step is the worker's, from a stretch that reaches its check with the
\* flag set (a listener's step leaves the flag set and the worker where it is)
ObservesFlag ==
    /\ fg.pc \in CheckStages /\ fg.idleShouldReloop
    /\ fg'.pc # fg.pc \/ ~fg'.idleShouldReloop
    /\ fg'.pc \notin {"dead", "returned"}

\* the worker moves to another place of the loop
Moves(to) == fg'.pc = to /\ fg.pc # to

\* C30 (foreground loop re-check): a check that finds the interrupt flag set
\* clears it and restarts the loop at the draining of the body queue; the
\* worker enters IDLE only from the end of an iteration whose checks all
\* found the flag clear; and an IDLE ended by an interrupt is followed by the
\* draining of the queue and the query for the tasks in state remote before
\* the next IDLE: the loop is left for IDLE only through its stretches in
\* order, each entered from the one before it.
LoopRecheck ==
    [][/\ ObservesFlag => fg'.pc = "drain" /\ ~fg'.idleShouldReloop
       /\ Moves("idling") => fg.pc = "idle"
       /\ Moves("idle") => fg.pc = "sync" /\ ~fg.idleShouldReloop
       /\ Moves("sync") => fg.pc = "connect" /\ ~fg.idleShouldReloop
       /\ Moves("connect") => fg.pc = "inbox" /\ ~fg.idleShouldReloop
       /\ Moves("inbox") => /\ fg.pc = "tasks" /\ ~fg.idleShouldReloop
                            /\ \A id \in TasksReady(store) : \E k \in 1..Len(hist'.performed) : hist'.performed[k].task.id = id
       /\ Moves("tasks") => fg.pc = "drain" /\ ~fg.idleShouldReloop /\ fg'.idleFetchBodyIDs = <<>>
       /\ fg.pc = "woken" => fg'.pc \in {"woken", "drain"} /\ fg'.idleShouldReloop]_vars

\* the worker has been round the loop and run a task; interrupts for a body
\* request and a new task have ended its IDLE, and the loop is about to
\* restart with the flag set, the queue filled and the task in state remote
InterruptedInIdle ==
    /\ fg.pc = "woken" /\ fg.idleShouldReloop
    /\ fg.idleFetchBodyIDs # <<>>
    /\ TasksReady(store) # {}
    /\ Len(hist.performed) > 0

-----------------------------------------------------------------------------
\* syncFoldersAndLabels called again and again while the server's list of
\* mailboxes changes: mailboxes come and go, change role, become no-select.

\* changes of the server's list in one behaviour
MaxRelists == 2

ListedPool ==
    {[path |-> "INBOX", role |-> "inbox", noSelect |-> FALSE],
     [path |-> "All", role |-> "all", noSelect |-> FALSE], [path |-> "All", role |-> "", noSelect |-> FALSE],
     [path |-> "Work", role |-> "", noSelect |-> FALSE], [path |-> "Work", role |-> "", noSelect |-> TRUE],
     [path |-> "Trash", role |-> "trash", noSelect |-> FALSE]}

\* the lists the server may give: up to two mailboxes, no path twice
FolderLists ==
    {l \in UNION {[1..n -> ListedPool] : n \in 0..2} : \A a, b \in DOMAIN l : a # b => l[a].path # l[b].path}

InitFolders ==
    /\ store = EmptyStore
    /\ \E l \in FolderLists : remote = EmptyMailbox(l)
    /\ caps \in {c \in Capabilities : ~c.condstore}
    /\ headers = PlainHeaders
    /\ now = StartTime
    /\ bg = NewWorker
    /\ fg = NewWorker
    /\ main = [pc |-> "listen"]
    /\ hist = NoHistory

\* the ids of the rows of Folder and Label
Categories(S) == DOMAIN S.folders \cup DOMAIN S.labels

\* auto folders = syncFoldersAndLabels(); err: fetchAllFolders fails
CallSyncFolders(err) ==
    /\ hist.cycle < hist.limit
    /\ \E res \in {syncFoldersAndLabels(AtRest(store), remote, err)} :
          /\ store' = res.S
          /\ hist' = [hist EXCEPT !.cycle = @ + 1,
                                  !.call = [op |-> "folders", thrown |-> res.thrown,
                                            toSync |-> {res.foldersToSync[k].id : k \in 1..Len(res.foldersToSync)},
                                            removed |-> Categories(store) \ Categories(res.S)]]
    /\ UNCHANGED <<remote, caps, headers, now, bg, fg, main>>

\* the account's list of mailboxes changes on the server
Relist(l) ==
    /\ hist.ops < MaxRelists
    /\ l # remote.folders
    /\ remote' = [remote EXCEPT !.folders = l]
    /\ hist' = [hist EXCEPT !.ops = @ + 1]
    /\ UNCHANGED <<store, caps, headers, now, bg, fg, main>>

NextFolders ==
    \/ \E err \in BOOLEAN : CallSyncFolders(err)
    \/ \E l \in FolderLists : Relist(l)

SpecFolders == InitFolders /\ [][NextFolders]_vars

\* the step is a call of syncFoldersAndLabels that committed
FoldersSynced == hist'.cycle = hist.cycle + 1 /\ ~hist'.call.thrown

\* the server's mailboxes without the no-select flag
Selectable(R) == {R.folders[k] : k \in {j \in 1..Len(R.folders) : ~R.folders[j].noSelect}}

\* C31 (folder-list reconciliation): after a call of syncFoldersAndLabels
\* that committed, the ids of the rows of Folder and Label together are the
\* ids of the server's mailboxes without the no-select flag; on a Gmail
\* server each of these whose role is not all, spam or trash is a row of
\* Label, not of Folder, and is not among the folders to scan; and each local
\* folder or label that the list no longer has is gone, and so is its row of
\* ThreadCounts.
FolderListReconciled ==
    [][FoldersSynced =>
          /\ Categories(store') = {idForFolder(f.path) : f \in Selectable(remote)}
          /\ caps.gmail => \A f \in Selectable(remote) :
                               f.role \notin {"all", "spam", "trash"}
                                  => /\ idForFolder(f.path) \in DOMAIN store'.labels
                                     /\ idForFolder(f.path) \notin DOMAIN store'.folders
                                     /\ idForFolder(f.path) \notin hist'.call.toSync
          /\ \A id \in Categories(store) \ {idForFolder(f.path) : f \in Selectable(remote)} :
                id \notin Categories(store') /\ id \notin store'.counts]_vars

\* on a Gmail server a call has removed a mailbox the list no longer has, and
\* the store holds a label and a folder
RemovedOnGmail ==
    /\ hist.call.op = "folders" /\ ~hist.call.thrown
    /\ hist.call.removed # {}
    /\ caps.gmail
    /\ DOMAIN store.labels # {} /\ DOMAIN store.folders # {}

-----------------------------------------------------------------------------
\* The two workers and their two phase counters (SpecBoth)

\* the step is the end of a background pass: the flip and the delete pass
PassEnds == bg.pc = "finish" /\ bg'.pc # "finish"

\* C32 (two workers, two phase counters): a message the foreground worker
\* unlinked while a background pass was under way is still stored after the
\* delete pass that ends that pass.
ForegroundUnlinkSurvivesPass ==
    [][PassEnds => \A i \in DOMAIN store.msgs :
                      (Unlinked(store, i) /\ hist.fgUnl[i] = hist.cycle) => i \in DOMAIN store'.msgs]_vars

\* the foreground worker's phase is the one it was made with
ForegroundPhaseStays == fg.unlinkPhase = 1

-----------------------------------------------------------------------------
\* The tombstone under repeated unlink calls (SpecProcessor)

\* C33 (tombstone is sticky): an unlink call leaves every row that is already
\* unlinked exactly as it is, whatever the phase of the call and whether the
\* query matches the row or not, so the row keeps the tombstone of the phase
\* that unlinked it; and the delete pass of that phase removes it, so no
\* later unlink call puts its deletion off.
TombstoneSticky ==
    [][/\ hist'.call.op = "unlink"
            => \A i \in DOMAIN store.msgs :
                  Unlinked(store, i) => i \in DOMAIN store'.msgs /\ store'.msgs[i] = store.msgs[i]
       /\ hist'.call.op = "delete"
            => \A i \in DOMAIN store.msgs :
                  store.msgs[i].remoteUID = Tombstone(hist'.call.phase) => i \notin DOMAIN store'.msgs]_vars

\* an unlink call of phase 1 has matched every row of a store whose rows were
\* all unlinked in phase 2, and they still carry the tombstone of phase 2
RedetectedKeepsPhase ==
    /\ hist.call.op = "unlink" /\ hist.call.phase = 1
    /\ DOMAIN store.msgs # {} /\ hist.call.matched = DOMAIN store.msgs
    /\ \A i \in DOMAIN store.msgs : store.msgs[i].remoteUID = Tombstone(2)

-----------------------------------------------------------------------------
\* The deep scan with failing FETCH requests.

\* hist.start is the server's uidNext when the scan under way began;
\* hist.covered is the lowest UID such that every UID from it up to hist.start
\* lies in a chunk of this scan whose FETCH succeeded (hist.start itself
\* before any has)
InitScanFail ==
    /\ remote \in {ScanMailbox(1..3, 4), ScanMailbox({5, 700, 1499}, 1500), ScanMailbox(201..400, 501)}
    /\ store = Unscanned(remote, FALSE)
    /\ caps \in {c \in Capabilities : c.condstore /\ ~c.gmail}
    /\ headers = [m \in 1..1500 |-> [messageID |-> m, references |-> <<>>, gmailThreadID |-> 0,
                                     autoGenerated |-> FALSE, date |-> OldDate]]
    /\ now = StartTime
    /\ bg = NewWorker
    /\ fg = NewWorker
    /\ main = [pc |-> "listen"]
    /\ hist = NoHistory @@ [start |-> 0, covered |-> 0]

\* syncFolderFullScanIncremental(*folder, remoteStatus), then
\* store->save(folder.get()); err: the FETCH of the chunk fails
CallFullScanOrFail(err) ==
    LET folder == ScanFolder(store, remote)
        status == folderStatus(remote, "INBOX")
        fresh == FreshScan(folder.localStatus, now)
        head == HeadOf(folder.localStatus, now, status)
        start == IF fresh THEN status.uidNext ELSE hist.start
        covered == IF fresh THEN status.uidNext ELSE hist.covered
    IN \E res \in {syncFolderFullScanIncremental(AtRest(store), remote, folder, status, bg.unlinkPhase, now, err)} :
        /\ hist.cycle <= hist.limit
        /\ store' = save(res.S, "folders", "Folder", res.folder.id, res.folder, TRUE)
        /\ hist' = [hist EXCEPT !.call = [op |-> "scan", result |-> res.result, at |-> now, before |-> folder.localStatus,
                                          err |-> err, head |-> head],
                                 !.cycle = @ + 1,
                                 !.start = start,
                                 !.covered = IF res.result /\ ~err /\ head >= covered - 1 /\ res.folder.localStatus["fullScanHead"] < covered
                                             THEN res.folder.localStatus["fullScanHead"] ELSE covered]
        /\ UNCHANGED <<remote, caps, headers, now, bg, fg, main>>

NextScanFail == (\E err \in BOOLEAN : CallFullScanOrFail(err)) \/ ScanWait \/ ScanExpunge \/ ScanFlag

SpecScanFail == InitScanFail /\ [][NextScanFail]_vars

\* C34 (deep-scan coverage under failure): the scan is at fullScanHead = 1
\* only when every UID from 1 up to the uidNext it began with has been in a
\* chunk whose FETCH succeeded; and a step whose FETCH failed leaves the
\* head where it was, so that the chunk is scanned again.
DeepScanCoverage ==
    [][Scans => /\ (StoredHead(store') = 1 /\ hist'.start > 1) => hist'.covered <= 1
                /\ (hist'.call.result /\ hist'.call.err) => StoredHead(store') = hist'.call.head]_vars

\* what holds instead: a step moves the head down whether its FETCH succeeded
\* or not
DeepScanMovesOnFailure ==
    [][(Scans /\ hist'.call.result) =>
          StoredHead(store') = LowerBound(hist'.call.head, ChunkOf(hist'.call.before, now), folderStatus(remote, "INBOX"))]_vars

-----------------------------------------------------------------------------
\* Failing requests: syncFolderUIDRange and syncFolderChangesViaCondstore
\* called on the inbox, with requests that fail and requests that succeed,
\* while other clients change the mailbox.

NextFailedFetch ==
    \/ \E syncErr \in BOOLEAN, fetchErr \in BOOLEAN : CallCondstore(syncErr, fetchErr)
    \/ \E length \in {1, 3}, err \in BOOLEAN : CallRange("INBOX", 1, length, bg.unlinkPhase, err)
    \/ CondstoreFlag
    \/ CondstoreExpunge
    \/ CondstoreAppend

SpecFailedFetch == InitCondstore /\ [][NextFailedFetch]_vars

\* the tables are as they were and the observer was handed nothing
Untouched == Tables(store') = Tables(store) /\ \A k \in 1..Len(store'.log) : store'.log[k].ev # "emit"

\* C35 (a failed fetch is harmless to messages): a call of syncFolderUIDRange
\* whose FETCH fails leaves every table as it was; a call of
\* syncFolderChangesViaCondstore whose SYNC request fails inserts, updates and
\* unlinks no message and leaves the stored highestmodseq and uidnext as they
\* were, so that the next call asks for the same changes again.
FailedFetchHarmless ==
    [][Synced =>
          /\ (hist'.call.op = "range" /\ hist'.call.err) => Untouched
          /\ (hist'.call.op = "condstore" /\ hist'.call.syncErr)
                => /\ NothingWritten
                   /\ store'.bodies = store.bodies /\ store'.refs = store.refs
                   /\ InboxStatus(store') = InboxStatus(store)
                   /\ modifiedOrAddedMessages(remote, "INBOX", InboxStatus(store')["highestmodseq"])
                         = modifiedOrAddedMessages(remote, "INBOX", InboxStatus(store)["highestmodseq"])
          /\ (hist'.call.op = "condstore" /\ hist'.call.shallow /\ hist'.call.fetchErr)
                => NewlyUnlinked(store, store') = {}]_vars

\* a SYNC request failed while the server had a new message and an expunged
\* one to report: the store has neither change, and the cursor is at the
\* modseq of before
FailedWithChangesPending ==
    /\ hist.call.op = "condstore" /\ hist.call.syncErr
    /\ InboxStatus(store)["highestmodseq"] = FirstModseq
    /\ \E r \in remote.msgs : r.m \notin DOMAIN store.msgs
    /\ \E i \in DOMAIN store.msgs : ~Unlinked(store, i) /\ \A r \in remote.msgs : r.m # i

-----------------------------------------------------------------------------
\* The inbox's localStatus under both workers (SpecBoth)

\* the value the stored inbox has under a key of localStatus, 0 when the
\* folder or the key is not there
InboxCursor(S, key) ==
    IF idForFolder("INBOX") \in DOMAIN S.folders /\ key \in DOMAIN S.folders[idForFolder("INBOX")].localStatus
    THEN S.folders[idForFolder("INBOX")].localStatus[key] ELSE 0

\* C36 (folder cursor under concurrent workers): no save of the inbox by
\* either worker takes the stored highestmodseq down, and none takes
\* fullScanHead up other than a deep-scan step that begins a scan.
FolderCursorMonotone ==
    [][/\ InboxCursor(store, "highestmodseq") <= InboxCursor(store', "highestmodseq")
       /\ (InboxCursor(store, "fullScanHead") # 0 /\ InboxCursor(store', "fullScanHead") > InboxCursor(store, "fullScanHead"))
             => /\ bg.pc = "folder" /\ bg'.idx = bg.idx + 1
                /\ FreshScan(bg.folders[bg.idx].localStatus, now)]_vars

-----------------------------------------------------------------------------
\* The body-fetch queue, statement by statement: the listener's
\* idleQueueBodiesToSync and idleInterrupt against the drain loop at the top
\* of idleCycle.  idleFetchBodyIDs is a std::vector that both threads use
\* without a lock; each statement on it is taken as one step, which is the
\* least the threads can do to each other.

\* main.ids: the ids the listener has still to push; fg.local: the id the
\* worker read with back(); hist.pushed, hist.taken: the ids pushed so far and
\* the ids the worker went on to fetch, in order
InitQueue ==
    /\ store = EmptyStore
    /\ remote = OneInInbox
    /\ caps = [condstore |-> TRUE, qresync |-> TRUE, gmail |-> FALSE]
    /\ headers = PlainHeaders
    /\ now = StartTime
    /\ bg = NewWorker
    /\ fg = [NewWorker EXCEPT !.pc = "drain"]
    /\ main = [pc |-> "listen", ids |-> <<>>]
    /\ hist = NoHistory @@ [pushed |-> {}, taken |-> <<>>]

\* {type: "need-bodies"} with one id or two; idleQueueBodiesToSync begins:
\* idleShouldReloop = true
QueueBegin(n) ==
    /\ main.pc = "listen" /\ hist.requests < MaxRequests
    /\ fg' = [fg EXCEPT !.idleShouldReloop = TRUE]
    /\ main' = [pc |-> "push", ids |-> [k \in 1..n |-> 2 * hist.requests + k]]
    /\ hist' = [hist EXCEPT !.requests = @ + 1]
    /\ UNCHANGED <<store, remote, caps, headers, now, bg>>

\* idleFetchBodyIDs.push_back(id)
QueuePush ==
    /\ main.pc = "push"
    /\ fg' = [fg EXCEPT !.idleFetchBodyIDs = Append(@, Head(main.ids))]
    /\ main' = [pc |-> IF Len(main.ids) = 1 THEN "interrupt" ELSE "push", ids |-> Tail(main.ids)]
    /\ hist' = [hist EXCEPT !.pushed = @ \cup {Head(main.ids)}]
    /\ UNCHANGED <<store, remote, caps, headers, now, bg>>

\* fgWorker->idleInterrupt()
QueueInterrupt ==
    /\ main.pc = "interrupt"
    /\ fg' = idleInterrupt(fg)
    /\ main' = [main EXCEPT !.pc = "listen"]
    /\ UNCHANGED <<store, remote, caps, headers, now, bg, hist>>

\* while (idleFetchBodyIDs.size() > 0) { string id = idleFetchBodyIDs.back();
DrainBack ==
    /\ fg.pc = "drain"
    /\ fg' = IF Len(fg.idleFetchBodyIDs) > 0
             THEN [fg EXCEPT !.pc = "take", !.local = <<fg.idleFetchBodyIDs[Len(fg.idleFetchBodyIDs)]>>]
             ELSE [fg EXCEPT !.pc = "check"]
    /\ UNCHANGED <<store, remote, caps, headers, now, bg, main, hist>>

\* idleFetchBodyIDs.pop_back(); then the message is looked up and its body
\* fetched
DrainPop ==
    /\ fg.pc = "take"
    /\ fg' = [fg EXCEPT !.pc = "drain", !.local = <<>>,
                        !.idleFetchBodyIDs = SubSeq(@, 1, Len(@) - 1)]
    /\ hist' = [hist EXCEPT !.taken = Append(@, fg.local[1])]
    /\ UNCHANGED <<store, remote, caps, headers, now, bg, main>>

\* if (idleShouldReloop) { idleShouldReloop = false; continue; }
DrainCheck ==
    /\ fg.pc = "check"
    /\ fg' = IF fg.idleShouldReloop THEN [fg EXCEPT !.idleShouldReloop = FALSE, !.pc = "drain"] ELSE [fg EXCEPT !.pc = "moved"]
    /\ UNCHANGED <<store, remote, caps, headers, now, bg, main, hist>>

\* the rest of the iteration: one of its checks finds the flag set, clears it
\* and continues, or the iteration ends (in IDLE, which the interrupt ends)
\* and the loop goes round with the flag as it is
DrainAgain(seen) ==
    /\ fg.pc = "moved"
    /\ seen => fg.idleShouldReloop
    /\ fg' = [fg EXCEPT !.pc = "drain", !.idleShouldReloop = IF seen THEN FALSE ELSE @]
    /\ UNCHANGED <<store, remote, caps, headers, now, bg, main, hist>>

NextQueue ==
    \/ \E n \in 1..2 : QueueBegin(n)
    \/ QueuePush
    \/ QueueInterrupt
    \/ DrainBack
    \/ DrainPop
    \/ DrainCheck
    \/ \E seen \in BOOLEAN : DrainAgain(seen)

SpecQueue == InitQueue /\ [][NextQueue]_vars

\* every id pushed is in the queue or has been taken from it
QueueNoneLost ==
    \A id \in hist.pushed :
        \/ \E k \in 1..Len(fg.idleFetchBodyIDs) : fg.idleFetchBodyIDs[k] = id
        \/ \E k \in 1..Len(hist.taken) : hist.taken[k] = id

\* no id has been taken twice
QueueNoneTwice == \A j, k \in 1..Len(hist.taken) : j # k => hist.taken[j] # hist.taken[k]

\* the check of line 88 finds the flag clear and the worker goes on to the tasks
MovesOn == fg.pc = "check" /\ fg'.pc = "moved"

\* the queue is empty when the worker leaves the drain loop with the flag clear
QueueEmptyOnMovingOn == [][MovesOn => fg'.idleFetchBodyIDs = <<>>]_vars

\* C37 (body-fetch queue under concurrency): in every interleaving of the
\* listener's idleQueueBodiesToSync with the worker's drain loop, every id
\* pushed is taken from the queue exactly once, none lost and none taken
\* twice, and the queue is empty whenever the worker moves on from the drain
\* loop with the flag clear.
QueueExactlyOnce == []QueueNoneLost /\ []QueueNoneTwice /\ QueueEmptyOnMovingOn

-----------------------------------------------------------------------------
\* The background thread up to its first sleep, on a server with QRESYNC whose
\* mailbox no client changes.  The only request that fails is the fetch of a
\* body.  hist.cycle counts the passes up to hist.limit and stays there, so
\* that a loop of passes is a loop of states.

\* message 1, of the last month, in the inbox or in the archive, alone or
\* with the older message 2
QuiesceMailboxes ==
    LET archived == [OneInInbox EXCEPT !.msgs = {[m |-> 1, path |-> "Archive", uid |-> 1, unread |-> FALSE, modseq |-> 1]},
                                       !.uidNext = [p \in {"INBOX", "Archive"} |-> IF p = "Archive" THEN 2 ELSE 1]]
    IN {OneInInbox, TwoInInbox, archived, Appended(OneInInbox, 2, "Archive", TRUE), Appended(archived, 2, "INBOX", TRUE)}

InitQuiesce ==
    /\ store = EmptyStore
    /\ remote \in QuiesceMailboxes
    /\ caps = [condstore |-> TRUE, qresync |-> TRUE, gmail |-> FALSE]
    /\ headers = PlainHeaders
    /\ now = StartTime
    /\ bg = [NewWorker EXCEPT !.pc = "syncNow"]
    /\ fg = NewWorker
    /\ main = [pc |-> "listen"]
    /\ hist = [NoHistory EXCEPT !.faults = {"body"}]

\* syncNow up to its loop
QuiesceSyncNow ==
    /\ Running /\ bg.pc = "syncNow"
    /\ \E res \in {syncFoldersAndLabels(AtRest(store), remote, FALSE)} :
         /\ store' = res.S
         /\ \E folders \in SortedByRole(SeqRange(res.foldersToSync)) :
              bg' = [bg EXCEPT !.pc = IF folders = <<>> THEN "finish" ELSE "folder",
                               !.folders = folders, !.idx = 1, !.syncAgainImmediately = FALSE]
    /\ hist' = [hist EXCEPT !.cycle = Min(@ + 1, hist.limit), !.more = {}]
    /\ UNCHANGED <<remote, caps, headers, now, fg, main>>

\* one iteration of syncNow's loop; the body fetches of the folder fail or
\* succeed
QuiesceSyncFolder ==
    /\ Running /\ bg.pc = "folder"
    /\ \E fail \in {"none"} \cup hist.faults :
         \E res \in {syncNowFolder(AtRest(store), remote, bg.folders[bg.idx], bg.unlinkPhase, now, fail)} :
            /\ store' = res.S
            /\ IF res.thrown
               THEN bg' = [bg EXCEPT !.pc = AfterThrow(res.ex)]
               ELSE bg' = [bg EXCEPT !.pc = IF bg.idx = Len(bg.folders) THEN "finish" ELSE "folder",
                                     !.folders[bg.idx] = res.folder,
                                     !.idx = @ + 1,
                                     !.syncAgainImmediately = @ \/ res.more]
            /\ hist' = [hist EXCEPT !.more = @ \cup {res.more},
                                    !.failed = IF fail = "body" /\ res.more THEN "body" ELSE @]
    /\ UNCHANGED <<remote, caps, headers, now, fg, main>>

\* the end of syncNow and the return into runBackgroundSyncWorker
QuiesceFinish ==
    /\ Running /\ bg.pc = "finish"
    /\ \E unlinkPhase \in {IF bg.unlinkPhase = 1 THEN 2 ELSE 1} :
         /\ store' = deleteMessagesStillUnlinkedFromPhase(AtRest(store), unlinkPhase)
         /\ bg' = [bg EXCEPT !.unlinkPhase = unlinkPhase, !.pc = AfterPass(bg.syncAgainImmediately)]
    /\ fg' = ForegroundStarted(fg).W
    /\ UNCHANGED <<remote, caps, headers, now, main, hist>>

NextQuiesce == QuiesceSyncNow \/ QuiesceSyncFolder \/ QuiesceFinish

\* Weak fairness of QuiesceSyncNow and QuiesceSyncFolder.  Each is enabled
\* exactly when the running thread is at its statement, and the loop over the
\* folders ends, so weak fairness says that the thread is at neither for ever.
FairBackground ==
    /\ []<>~(Running /\ bg.pc = "syncNow")
    /\ []<>~(Running /\ bg.pc = "folder")

\* the background thread takes the steps it can take
SpecQuiesce == InitQuiesce /\ [][NextQuiesce]_vars /\ FairBackground /\ WF_vars(QuiesceFinish)

QuiescesWhenFetchesWork == <>(bg.pc = "sleep" \/ hist.failed = "body")

\* no pass but the first two goes on to another without a failed fetch
LoopsOnlyOnFailure ==
    [][(bg.pc = "finish" /\ bg'.pc = "syncNow" /\ hist.cycle > 2) => hist.failed = "body"]_vars

====
